---------------------------- MODULE Spec2Model ----------------------------
(***************************************************************************)
(* Subprocess execution and streaming redaction engine of ci-actions.      *)
(*                                                                         *)
(* Modelled snapshot: src/actions/pkg (Subprocess, Writer, processor       *)
(* collection, MaskerEqual, Terraform/Aws executors) completed with        *)
(* src/actions/pkgs for the modules the pkg snapshot does not carry        *)
(* (Output, MaskerRegex, Validator and its rules, Context).                *)
(*                                                                         *)
(* Text is a sequence of one-character strings.  The process's standard    *)
(* out is kept as one printed sequence per asynchronous logger, since the  *)
(* two logger workers write to it in an arbitrary interleaving.            *)
(***************************************************************************)
EXTENDS Integers, Sequences, FiniteSets, TLC

(***************************************************************************)
(* Bounds of the model.                                                    *)
(***************************************************************************)
\* lines the children of one run write, both streams together
MaxLines == 2
\* lines an OS pipe buffers before the writer blocks
PipeCap == 2
\* commands in a chain
MaxChain == 2
\* writes a scripted child makes
MaxScript == 3
\* calls of add and remove made on the variables of an action
MaxCalls == 2
\* length of a line drawn for the redaction pipeline alone
MaxLen == 3

(***************************************************************************)
(* Text helpers.                                                           *)
(***************************************************************************)
Digit == <<"0", "1", "2", "3", "4", "5", "6", "7", "8", "9">>

\* format!("{}", n) for an unsigned integer
RECURSIVE DecStr(_)
DecStr(n) ==
    IF n < 10 THEN <<Digit[n + 1]>>
    ELSE DecStr(n \div 10) \o <<Digit[(n % 10) + 1]>>

Drop(s, n) == SubSeq(s, n + 1, Len(s))

Take(s, n) == SubSeq(s, 1, IF n < Len(s) THEN n ELSE Len(s))

\* str::starts_with
StartsWith(s, p) == Len(s) >= Len(p) /\ SubSeq(s, 1, Len(p)) = p

\* str::contains
Contains(s, p) == \E i \in 0..(Len(s) - Len(p)) : SubSeq(s, i + 1, i + Len(p)) = p

\* str::replace: every non-overlapping occurrence, scanning left to right;
\* the empty pattern matches at every character boundary.
RECURSIVE Replace(_, _, _)
Replace(s, from, to) ==
    IF from = <<>>
    THEN IF s = <<>> THEN to ELSE to \o <<Head(s)>> \o Replace(Tail(s), from, to)
    ELSE IF Len(s) < Len(from) THEN s
    ELSE IF StartsWith(s, from) THEN to \o Replace(Drop(s, Len(from)), from, to)
    ELSE <<Head(s)>> \o Replace(Tail(s), from, to)

(***************************************************************************)
(* Regular expressions: a literal followed by a greedy run of min..max     *)
(* characters of a class (password=\w+ , \d{4} , secret).                  *)
(***************************************************************************)
RECURSIVE ClassRun(_, _, _)
ClassRun(s, cls, max) ==
    IF s = <<>> \/ max = 0 \/ Head(s) \notin cls THEN 0
    ELSE 1 + ClassRun(Tail(s), cls, max - 1)

\* length of the match of p anchored at the start of s, 0 when there is none
MatchLen(s, p) ==
    IF StartsWith(s, p.lit)
    THEN LET run == ClassRun(Drop(s, Len(p.lit)), p.cls, p.max)
         IN  IF run >= p.min THEN Len(p.lit) + run ELSE 0
    ELSE 0

\* Regex::replace_all: leftmost non-overlapping matches
RECURSIVE ReplaceAll(_, _, _)
ReplaceAll(s, p, to) ==
    IF s = <<>> THEN s
    ELSE LET n == MatchLen(s, p)
         IN  IF n > 0 THEN to \o ReplaceAll(Drop(s, n), p, to)
             ELSE <<Head(s)>> \o ReplaceAll(Tail(s), p, to)

(***************************************************************************)
(* Mask rules.                                                             *)
(***************************************************************************)
Equal(substring, mask) == [kind |-> "Equal", items |-> substring, mask |-> mask]

Regex(patterns, mask) == [kind |-> "Regex", items |-> patterns, mask |-> mask]

RECURSIVE MaskerEqual_process(_, _, _)
MaskerEqual_process(substring, mask, input) ==
    IF substring = <<>> THEN input
    ELSE MaskerEqual_process(Tail(substring), mask, Replace(input, Head(substring), mask))

RECURSIVE MaskerRegex_process(_, _, _)
MaskerRegex_process(patterns, mask, input) ==
    IF patterns = <<>> THEN input
    ELSE MaskerRegex_process(Tail(patterns), mask, ReplaceAll(input, Head(patterns), mask))

\* ProcessorItem::process that hands back the mask when nothing matched
ProcessorItem_process_MasksUnmatched(m, input) ==
    LET output == IF m.kind = "Equal" THEN MaskerEqual_process(m.items, m.mask, input)
                  ELSE MaskerRegex_process(m.items, m.mask, input)
    IN  IF output = input THEN m.mask ELSE output

ProcessorItem_process(m, input) ==
    IF m.kind = "Equal" THEN MaskerEqual_process(m.items, m.mask, input)
    ELSE MaskerRegex_process(m.items, m.mask, input)

\* the fold of ProcessorCollection::process: the accumulator after each rule
RECURSIVE FoldSteps(_, _)
FoldSteps(processors, acc) ==
    IF processors = <<>> THEN <<>>
    ELSE LET res == ProcessorItem_process(Head(processors), acc)
         IN  <<[kind |-> Head(processors).kind, res |-> res]>>
                 \o FoldSteps(Tail(processors), res)

\* process folding the rules from the last one to the first
process_LastRuleFirst(processors, input) ==
    LET reversed == [i \in 1..Len(processors) |-> processors[Len(processors) + 1 - i]]
        steps == FoldSteps(reversed, input)
    IN  IF steps = <<>> THEN input ELSE steps[Len(steps)].res

process(processors, input) ==
    LET steps == FoldSteps(processors, input)
    IN  IF steps = <<>> THEN input ELSE steps[Len(steps)].res

\* the eprintln! diagnostics of ProcessorCollection::process, in order
process_debug(processors, input) ==
    LET steps == FoldSteps(processors, input)
    IN  <<[tag |-> "DEBUG - Before masking", text |-> input]>>
        \o [i \in 1..Len(steps) |->
               [tag |-> IF steps[i].kind = "Equal" THEN "DEBUG - After Equal mask"
                                                   ELSE "DEBUG - After Regex mask",
                text |-> steps[i].res]]
        \o <<[tag |-> "DEBUG - Final result", text |-> process(processors, input)]>>

(***************************************************************************)
(* Results.                                                                *)
(***************************************************************************)
Ok(v) == [tag |-> "Ok", code |-> v, kind |-> "-", msg |-> "-"]

Err(kind, msg) == [tag |-> "Err", code |-> 0, kind |-> kind, msg |-> msg]

NoResult == [tag |-> "None", code |-> 0, kind |-> "-", msg |-> "-"]

\* Option<T>: <<>> is None, <<v>> is Some(v)
None == <<>>

Some(v) == <<v>>

(***************************************************************************)
(* Execution request and validation.                                       *)
(***************************************************************************)
\* Context::new and with_timeout; env is a set of <<key, value>> pairs
Context(command, env, cwd, timeout) ==
    [command |-> command, env |-> env, cwd |-> cwd, timeout |-> timeout]

\* CmdRule::new; "backtick" and "backslash" stand for those two characters
forbidden_chars == {"&", "|", ";", "backtick", "backslash"}

Whitespace == {" ", "\t"}

\* s.trim().is_empty()
IsBlank(s) == \A i \in 1..Len(s) : s[i] \in Whitespace

DashC == <<"-", "c">>

\* arg.chars().any(|c| self.forbidden_chars.contains(&c))
AnyForbidden(arg) == \E j \in 1..Len(arg) : arg[j] \in forbidden_chars

\* `for (i, arg) in context.command.iter().enumerate()` from the i-th token
\* on (i counts from 1): `continue` after a "-c", return at the first
\* token with a forbidden character
RECURSIVE CmdRule_scan(_, _)
CmdRule_scan(command, i) ==
    IF i > Len(command) THEN {Ok(0)}
    ELSE IF i > 1 /\ command[i - 1] = DashC
         THEN CmdRule_scan(command, i + 1)
         ELSE IF AnyForbidden(command[i])
              THEN {Err("ValidationError",
                        "Invalid command argument: contains forbidden characters")}
              ELSE CmdRule_scan(command, i + 1)

\* CmdRule::validate without the exemption of the token after "-c"
CmdRule_validate_NoExemption(context) ==
    IF context.command = <<>>
    THEN {Err("ValidationError", "Empty command sequence")}
    ELSE IF \E i \in 1..Len(context.command) : AnyForbidden(context.command[i])
         THEN {Err("ValidationError",
                   "Invalid command argument: contains forbidden characters")}
         ELSE {Ok(0)}

\* CmdRule::validate
CmdRule_validate(context) ==
    IF context.command = <<>>
    THEN {Err("ValidationError", "Empty command sequence")}
    ELSE CmdRule_scan(context.command, 1)

\* EnvRule::validate that checks the keys only
EnvRule_validate_KeysOnly(context) ==
    LET bad == {e \in context.env : IsBlank(e[1])}
    IN  IF bad = {} THEN {Ok(0)}
        ELSE {Err("ValidationError", "Environment variable name cannot be empty")}

\* EnvRule::validate: the map is walked in an unspecified order, so the
\* entry that is reported is any of the failing ones
EnvRule_validate(context) ==
    LET bad == {e \in context.env : IsBlank(e[1]) \/ IsBlank(e[2])}
    IN  IF bad = {} THEN {Ok(0)}
        ELSE {Err("ValidationError",
                  IF IsBlank(e[1]) THEN "Environment variable name cannot be empty"
                                   ELSE "Environment variable has empty value") : e \in bad}

\* what the file system holds at a path
FsKind(path) ==
    CASE path \in {"/work", "."} -> "dir"
      [] path = "/work/main.tf" -> "file"
      [] OTHER -> "missing"

\* PathRule::validate
PathRule_validate(context) ==
    IF context.cwd = None THEN {Ok(0)}
    ELSE IF FsKind(context.cwd[1]) = "missing"
         THEN {Err("ValidationError", "Working directory does not exist")}
         ELSE IF FsKind(context.cwd[1]) # "dir"
              THEN {Err("ValidationError", "Path is not a directory")}
              ELSE {Ok(0)}

\* ValidationRule::priority: 0 for CmdRule, 2 for EnvRule and PathRule, the
\* trait's default of 5 for a rule that does not override it; the two rules
\* of test_validation_order carry 1 and 10
priority(rule) ==
    CASE rule = "cmd" -> 0
      [] rule = "environment" -> 2
      [] rule = "path" -> 2
      [] rule = "high priority" -> 1
      [] rule = "low priority" -> 10
      [] OTHER -> 5

ValidationRule_validate(rule, context) ==
    CASE rule = "cmd" -> CmdRule_validate(context)
      [] rule = "environment" -> EnvRule_validate(context)
      [] rule = "path" -> PathRule_validate(context)
      [] rule = "high priority" -> {Err("ValidationError", "Test failure")}
      [] rule = "low priority" -> {Ok(0)}

standard_rules == <<"cmd", "environment", "path">>

\* rules.sort_by_key(priority): a stable sort
RECURSIVE InsertByPriority(_, _)
InsertByPriority(sorted, rule) ==
    IF sorted = <<>> THEN <<rule>>
    ELSE IF priority(Head(sorted)) <= priority(rule)
         THEN <<Head(sorted)>> \o InsertByPriority(Tail(sorted), rule)
         ELSE <<rule>> \o sorted

RECURSIVE Validator_new(_)
Validator_new(rules) ==
    IF rules = <<>> THEN <<>>
    ELSE InsertByPriority(Validator_new(SubSeq(rules, 1, Len(rules) - 1)), rules[Len(rules)])

Validator_default == Validator_new(standard_rules)

\* Validator::validate: the outcomes of running the rules in order up to
\* the first failure
RECURSIVE Validator_validate(_, _)
Validator_validate(rules, context) ==
    IF rules = <<>> THEN {Ok(0)}
    ELSE LET here == ValidationRule_validate(Head(rules), context)
         IN  {r \in here : r.tag = "Err"}
             \cup (IF Ok(0) \in here THEN Validator_validate(Tail(rules), context) ELSE {})

(***************************************************************************)
(* Output targets and the lines of the modelled children.                  *)
(***************************************************************************)
Stdout == [kind |-> "Stdout", path |-> "-"]

Stderr == [kind |-> "Stderr", path |-> "-"]

File(path) == [kind |-> "File", path |-> path]

\* the files OpenOptions can create or append to; any other path fails to open
WritablePaths == {"out.log", "err.log"}

Streams == {"out", "err"}

Secret == <<"k", "e", "y">>

Mask == <<"*", "*">>

\* password=\w+ scaled to the model's alphabet
PasswordPattern == [lit |-> <<"p", "=">>, cls |-> {"x", "y"}, min |-> 1, max |-> 1000]

\* the rule list of the action binaries: provider patterns, then literal values
Processors == <<Regex(<<PasswordPattern>>, Mask), Equal(<<Secret>>, Mask)>>

\* a byte sequence that is not UTF-8
InvalidByte == "xFF"

IsUtf8(line) == \A i \in 1..Len(line) : line[i] # InvalidByte

\* the k-th line a child writes to a stream: all distinct, some holding a
\* secret, some matching the pattern, some neither
Line(s, k) ==
    IF s = "out"
    THEN <<"o">> \o DecStr(k) \o (IF k % 2 = 1 THEN <<"p", "=", "x", "y">> ELSE Secret)
    ELSE <<"e">> \o DecStr(k) \o (IF k % 2 = 1 THEN Secret ELSE <<>>)

Garbled(s, k) == (IF s = "out" THEN <<"o">> ELSE <<"e">>) \o DecStr(k) \o <<InvalidByte>>

(***************************************************************************)
(* State.                                                                  *)
(***************************************************************************)
VARIABLES
    cfg,          \* Output: processor, output_target, error_target; the caller
    rules,        \* Validator.rules
    evaluated,    \* history: the rules Validator::validate has run, in order
    commands,     \* the Vec of commands handed to execute_chain
    cpc,          \* position of execute_chain
    idx,          \* number of commands the chain loop has taken so far
    last_result,  \* execute_chain's last_result
    chain_result, \* what execute_chain returned
    exit_status,  \* the exit status of the action binary, once main has returned
    outcomes,     \* history: what self.execute returned for each command taken
    context,      \* the Context of the current Subprocess::execute call
    pc,           \* position of Subprocess::execute
    status,       \* execute's local `status`, as status.code(); None outside its scope
    result,       \* what Subprocess::execute returned, until the caller takes it
    child,        \* the child process: none, running, exited or reaped
    written,      \* lines the children have written so far, per stream
    pipe,         \* lines buffered in the child's stdout and stderr pipes
    drain,        \* state of the two drain tasks
    emitted,      \* the lines handed to Output::write / write_error, in call order
    nprinted,     \* how many records each slog_async worker has printed so far
    fwrites,      \* the write calls made on files, in the order the OS took them
    spawns,       \* history: the command index of every process spawned
    chain,        \* CommandChain: the builder the chain of commands is made from
    envs,         \* TerraformEnv / AwsEnv: the environment map, a set of <<key, value>>
    calls         \* history: the calls made on envs, each with what it returned

vars == <<cfg, rules, evaluated, commands, cpc, idx, last_result, chain_result, exit_status, outcomes, context,
          pc, status, result, child, written, pipe, drain, emitted, nprinted, fwrites, spawns, chain, envs, calls>>

validatorVars == <<rules, evaluated>>

buildVars == <<chain, envs, calls>>

chainVars == <<commands, cpc, last_result, chain_result, exit_status, outcomes>>

sinkVars == <<emitted, nprinted, fwrites>>

Loggers == {"output", "writer"}

NoContext == Context(<<>>, {}, None, None)

NoChild == "none"

(***************************************************************************)
(* Output router and writer.                                               *)
(***************************************************************************)
LogPrefix == <<":", ":", "l", "o", "g", ":", ":">>

DebugPrefixLen == 50

\* the eprintln! diagnostics of Writer::write
Writer_debug(line) ==
    <<[tag |-> "DEBUG - Raw input line length", text |-> DecStr(Len(line))],
      [tag |-> "DEBUG - First 50 chars", text |-> Take(line, DebugPrefixLen)]>>

safe_line(line) == IF ~StartsWith(line, LogPrefix) THEN LogPrefix \o line ELSE line

Stamp(recs, origin) ==
    [i \in 1..Len(recs) |-> [tag |-> recs[i].tag, text |-> recs[i].text, origin |-> origin]]

\* Writer::write fails (expect panics) when the target file cannot be opened
Writer_panics(target) == target.kind = "File" /\ target.path \notin WritablePaths

TargetOf(s) == IF s = "out" THEN cfg.output_target ELSE cfg.error_target

\* Output::write (s = "out") and Output::write_error (s = "err") on one line.
\* Everything the call writes is a function of the line and of the Output,
\* so the state records the call and the sinks below are read off it.
\* With a File target the call ends inside writeln!(file, "{}", line), which
\* hands the text and the line terminator to the file in two write calls:
\* the first is made here, the second by Writer_newline.
Output_write(s, line) ==
    LET e == [cmd |-> idx, stream |-> s, raw |-> line]
    IN  /\ emitted' = Append(emitted, e)
        /\ fwrites' = IF TargetOf(s).kind = "File" /\ ~Writer_panics(TargetOf(s))
                      THEN Append(fwrites, [path |-> TargetOf(s).path, nl |-> FALSE,
                                            origin |-> e])
                      ELSE fwrites
        /\ UNCHANGED nprinted

\* the second write call of writeln!(file, "{}", line): the line terminator
Writer_newline(s, e) ==
    /\ fwrites' = Append(fwrites, [path |-> TargetOf(s).path, nl |-> TRUE, origin |-> e])
    /\ UNCHANGED <<emitted, nprinted>>

\* what one call writes to standard error: the eprintln! lines of
\* ProcessorCollection::process, then those of Writer::write
EprintedBy(e) ==
    Stamp(process_debug(cfg.processor, e.raw)
              \o Writer_debug(process(cfg.processor, e.raw)), e)

\* what one call submits to a logger: the Output's logger gets the processed
\* line, the Writer's logger gets safe_line when the target is Stdout or
\* Stderr (the level differs, PlainFormatter prints the message alone)
Submits(l, e) == l = "output" \/ TargetOf(e.stream).kind \in {"Stdout", "Stderr"}

\* SubmittedBy with a pipeline that redacts the lines of stdout only
SubmittedBy_PerStreamState(l, e) ==
    LET processed == IF e.stream = "out" THEN process(cfg.processor, e.raw) ELSE e.raw
    IN  IF ~Submits(l, e) THEN <<>>
        ELSE <<[tag |-> "log",
                text |-> IF l = "output" THEN processed ELSE safe_line(processed),
                origin |-> e]>>

SubmittedBy(l, e) ==
    LET processed == process(cfg.processor, e.raw)
    IN  IF ~Submits(l, e) THEN <<>>
        ELSE <<[tag |-> "log",
                text |-> IF l = "output" THEN processed ELSE safe_line(processed),
                origin |-> e]>>

\* the text a write call on a file carries
Written(w) == IF w.nl THEN <<"\n">> ELSE process(cfg.processor, w.origin.raw)

RECURSIVE FlatMap(_, _)
FlatMap(F(_), es) == IF es = <<>> THEN <<>> ELSE F(Head(es)) \o FlatMap(F, Tail(es))

\* the process's standard error
fdErr == LET F(e) == EprintedBy(e) IN FlatMap(F, emitted)

\* the records handed to a slog_async logger, in order
Submitted(l) == LET F(e) == SubmittedBy(l, e) IN FlatMap(F, emitted)

\* what a logger's worker has printed to the process's standard out
printed(l) == Take(Submitted(l), nprinted[l])

\* what still waits in a logger's channel
logq(l) == Drop(Submitted(l), nprinted[l])

\* the lines written to a file, one record per writeln!
file(path) ==
    LET texts == SelectSeq(fwrites, LAMBDA w : w.path = path /\ ~w.nl)
    IN  [i \in DOMAIN texts |->
            [tag |-> "line", text |-> Written(texts[i]), origin |-> texts[i].origin]]

\* the content of a file, character by character
FileBytes(path) ==
    LET F(w) == IF w.path = path THEN Written(w) ELSE <<>> IN FlatMap(F, fwrites)

Range(seq) == {seq[i] : i \in DOMAIN seq}

\* the process's standard out: both workers print to it, in any interleaving
fdOut == printed("output") \o printed("writer")

\* what a target of the Output has received
Sink(target) ==
    CASE target.kind = "Stdout" -> fdOut
      [] target.kind = "Stderr" -> fdErr
      [] OTHER -> file(target.path)

\* every record written anywhere
SinkRecords ==
    Range(fdOut) \cup Range(fdErr) \cup UNION {Range(file(p)) : p \in WritablePaths}

\* the worker thread of a slog_async logger: PlainFormatter::log prints the
\* next queued record with println!
LoggerWorker(l) ==
    /\ nprinted[l] < Cardinality({i \in DOMAIN emitted : Submits(l, emitted[i])})
    /\ nprinted' = [nprinted EXCEPT ![l] = @ + 1]
    /\ UNCHANGED <<cfg, validatorVars, buildVars, chainVars, idx, context, pc, status, result, child, written,
                   pipe, drain, emitted, fwrites, spawns>>

(***************************************************************************)
(* Subprocess::execute.                                                    *)
(***************************************************************************)
\* status.code().unwrap_or(2)
FallbackCode == 2

\* format!("Command timed out after {} seconds", t)
TimedOut(t) == "Command timed out after " \o ToString(t) \o " seconds"

\* the codes a child exits with; None is a child ended by a signal
ExitCodes == {Some(0), Some(3), None}

\* Launch with the validation moved behind the spawn
Launch_SpawnsBeforeValidating ==
    /\ pc = "launch"
    /\ \E r \in Validator_validate(Validator_default, context) :
          \/ /\ child' = "running"
             /\ pipe' = [s \in Streams |-> <<>>]
             /\ drain' = [s \in Streams |-> "running"]
             /\ spawns' = Append(spawns, idx)
             /\ IF r.tag = "Err"
                THEN result' = r /\ pc' = "done"
                ELSE pc' = "wait" /\ UNCHANGED result
          \/ /\ result' = Err("IoError", "spawn failed")
             /\ pc' = "done"
             /\ UNCHANGED <<child, pipe, drain, spawns>>
    /\ UNCHANGED <<cfg, validatorVars, buildVars, chainVars, idx, context, status, written, sinkVars>>

\* execute up to its first await: self.validator.validate(&context)?, then
\* command.spawn()? (the program may fail to start), the capture of both
\* pipes and the two tokio::spawn calls of the drain tasks
Launch ==
    /\ pc = "launch"
    /\ \E r \in Validator_validate(Validator_default, context) :
          IF r.tag = "Err"
          THEN /\ result' = r
               /\ pc' = "done"
               /\ UNCHANGED <<child, pipe, drain, spawns>>
          ELSE \/ /\ child' = "running"
                  /\ pipe' = [s \in Streams |-> <<>>]
                  /\ drain' = [s \in Streams |-> "running"]
                  /\ spawns' = Append(spawns, idx)
                  /\ pc' = "wait"
                  /\ UNCHANGED result
               \/ /\ result' = Err("IoError", "spawn failed")
                  /\ pc' = "done"
                  /\ UNCHANGED <<child, pipe, drain, spawns>>
    /\ UNCHANGED <<cfg, validatorVars, buildVars, chainVars, idx, context, status, written, sinkVars>>

\* child.wait() completes, with or without a timeout around it: the child is
\* reaped and how it ended (a code, or None after a signal) becomes known;
\* or wait itself fails and the ? returns its io::Error
WaitReturns ==
    /\ pc = "wait"
    /\ child = "exited"
    /\ \/ /\ child' = "reaped"
          /\ \E c \in ExitCodes : status' = c
          /\ pc' = "join_stdout"
          /\ UNCHANGED result
       \/ /\ result' = Err("IoError", "wait failed")
          /\ pc' = "done"
          /\ UNCHANGED <<child, status>>
    /\ UNCHANGED <<cfg, validatorVars, buildVars, chainVars, idx, context, written, pipe, drain, sinkVars, spawns>>

\* TimeoutElapses with the timer looked at before child.wait()
TimeoutElapses_TimerFirst ==
    /\ pc = "wait"
    /\ context.timeout # None
    /\ child \in {"running", "reading", "exited"}
    /\ pc' = "kill"
    /\ UNCHANGED <<cfg, validatorVars, buildVars, chainVars, idx, context, status, result, child, written, pipe,
                   drain, sinkVars, spawns>>

\* timeout(...) elapses before the child has exited
TimeoutElapses ==
    /\ pc = "wait"
    /\ context.timeout # None
    /\ child \in {"running", "reading"}
    /\ pc' = "kill"
    /\ UNCHANGED <<cfg, validatorVars, buildVars, chainVars, idx, context, status, result, child, written, pipe,
                   drain, sinkVars, spawns>>

\* KillAndReturn without child.kill().await
KillAndReturn_WithoutKill ==
    /\ pc = "kill"
    /\ result' = Err("ExecutionError", TimedOut(context.timeout[1]))
    /\ pc' = "done"
    /\ UNCHANGED <<cfg, validatorVars, buildVars, chainVars, idx, context, status, child, written, pipe, drain,
                   sinkVars, spawns>>

\* KillAndReturn reporting the timeout with the message of a failed join
KillAndReturn_AsJoinFailure ==
    /\ pc = "kill"
    /\ child' = "reaped"
    /\ result' = Err("ExecutionError", "Failed to process stdout")
    /\ pc' = "done"
    /\ UNCHANGED <<cfg, validatorVars, buildVars, chainVars, idx, context, status, written, pipe, drain,
                   sinkVars, spawns>>

\* child.kill().await? and the return of the timeout error; the drain
\* handles are dropped, which detaches the tasks
KillAndReturn ==
    /\ pc = "kill"
    /\ child' = "reaped"
    /\ result' = Err("ExecutionError", TimedOut(context.timeout[1]))
    /\ pc' = "done"
    /\ UNCHANGED <<cfg, validatorVars, buildVars, chainVars, idx, context, status, written, pipe, drain,
                   sinkVars, spawns>>

\* the joins with the stderr handle awaited before the stdout handle
JoinStdout_StderrFirst ==
    /\ pc = "join_stdout"
    /\ \A s \in {"out", "err"} : drain[s] \in {"done", "readerr", "panicked"}
    /\ IF drain["err"] = "panicked" \/ drain["out"] = "panicked"
       THEN /\ result' = Err("ExecutionError",
                             IF drain["err"] = "panicked" THEN "Failed to process stderr"
                             ELSE "Failed to process stdout")
            /\ pc' = "done"
            /\ status' = None
       ELSE /\ pc' = "join_stderr"
            /\ UNCHANGED <<result, status>>
    /\ UNCHANGED <<cfg, validatorVars, buildVars, chainVars, idx, context, child, written, pipe, drain,
                   sinkVars, spawns>>

\* stdout_handle.await.map_err(..)?
JoinStdout ==
    /\ pc = "join_stdout"
    /\ drain["out"] \in {"done", "readerr", "panicked"}
    /\ IF drain["out"] = "panicked"
       THEN /\ result' = Err("ExecutionError", "Failed to process stdout")
            /\ pc' = "done"
            /\ status' = None
       ELSE /\ pc' = "join_stderr"
            /\ UNCHANGED <<result, status>>
    /\ UNCHANGED <<cfg, validatorVars, buildVars, chainVars, idx, context, child, written, pipe, drain,
                   sinkVars, spawns>>

\* JoinStderr turning a non-zero exit code into an error
JoinStderr_NonZeroIsError ==
    /\ pc = "join_stderr"
    /\ drain["err"] \in {"done", "readerr", "panicked"}
    /\ result' = IF drain["err"] = "panicked"
                 THEN Err("ExecutionError", "Failed to process stderr")
                 ELSE IF status \notin {None, Some(0)}
                      THEN Err("ExecutionError", "Command failed")
                      ELSE Ok(IF status = None THEN FallbackCode ELSE status[1])
    /\ pc' = "done"
    /\ status' = None
    /\ UNCHANGED <<cfg, validatorVars, buildVars, chainVars, idx, context, child, written, pipe, drain,
                   sinkVars, spawns>>

\* JoinStderr with status.code().unwrap_or(0)
JoinStderr_FallbackZero ==
    /\ pc = "join_stderr"
    /\ drain["err"] \in {"done", "readerr", "panicked"}
    /\ result' = IF drain["err"] = "panicked"
                 THEN Err("ExecutionError", "Failed to process stderr")
                 ELSE Ok(IF status = None THEN 0 ELSE status[1])
    /\ pc' = "done"
    /\ status' = None
    /\ UNCHANGED <<cfg, validatorVars, buildVars, chainVars, idx, context, child, written, pipe, drain,
                   sinkVars, spawns>>

\* stderr_handle.await.map_err(..)? and Ok(status.code().unwrap_or(2))
JoinStderr ==
    /\ pc = "join_stderr"
    /\ drain["err"] \in {"done", "readerr", "panicked"}
    /\ result' = IF drain["err"] = "panicked"
                 THEN Err("ExecutionError", "Failed to process stderr")
                 ELSE Ok(IF status = None THEN FallbackCode ELSE status[1])
    /\ pc' = "done"
    /\ status' = None
    /\ UNCHANGED <<cfg, validatorVars, buildVars, chainVars, idx, context, child, written, pipe, drain,
                   sinkVars, spawns>>

(***************************************************************************)
(* The child process and the two drain tasks.                              *)
(***************************************************************************)
\* what the k-th line of a stream may be: a child run on its own may also
\* write bytes that are not UTF-8, the tools run in chains write text
ChildLines(s, k) ==
    IF cfg.caller = "direct" THEN {Line(s, k), Garbled(s, k)} ELSE {Line(s, k)}

\* the child writes its next line to a stream whose pipe has room and whose
\* read end is still open
ChildWrite(s) ==
    /\ child = "running"
    /\ written["out"] + written["err"] < MaxLines
    /\ Len(pipe[s]) < PipeCap
    /\ drain[s] \in {"running", "newline"}
    /\ \E line \in ChildLines(s, written[s] + 1) :
          pipe' = [pipe EXCEPT ![s] = Append(@, line)]
    /\ written' = [written EXCEPT ![s] = @ + 1]
    /\ UNCHANGED <<cfg, validatorVars, buildVars, chainVars, idx, context, pc, status, result, child, drain,
                   sinkVars, spawns>>

\* the child starts a read on its standard input
ChildReadsStdin ==
    /\ child = "running"
    /\ child' = "reading"
    /\ UNCHANGED <<cfg, validatorVars, buildVars, chainVars, idx, context, pc, status, result, written, pipe,
                   drain, sinkVars, spawns>>

\* the read on an inherited terminal at which nobody types: it does not return
ChildStdinEof_Inherited ==
    /\ child = "reading"
    /\ FALSE
    /\ UNCHANGED vars

\* the child was spawned with .stdin(Stdio::null()): its read returns end of
\* input at once
ChildStdinEof ==
    /\ child = "reading"
    /\ child' = "running"
    /\ UNCHANGED <<cfg, validatorVars, buildVars, chainVars, idx, context, pc, status, result, written, pipe,
                   drain, sinkVars, spawns>>

\* the child exits, which closes the write ends of its pipes
ChildExit ==
    /\ child = "running"
    /\ child' = "exited"
    /\ UNCHANGED <<cfg, validatorVars, buildVars, chainVars, idx, context, pc, status, result, written, pipe,
                   drain, sinkVars, spawns>>

\* the program of a child that writes one line per argument, to stdout for
\* the argument o and to stderr for e, and then exits
Script == Tail(context.command)

\* that child makes its next write: it goes into the pipe when the pipe has
\* room and blocks until then; when the drain task of the stream has ended
\* the read end is closed, and the write either kills the child (SIGPIPE) or
\* fails and the line is lost
ChildScriptWrite(s) ==
    /\ child = "running"
    /\ written["out"] + written["err"] < Len(Script)
    /\ Script[written["out"] + written["err"] + 1] = (IF s = "out" THEN <<"o">> ELSE <<"e">>)
    /\ IF drain[s] \in {"running", "newline"}
       THEN /\ Len(pipe[s]) < PipeCap
            /\ pipe' = [pipe EXCEPT ![s] = Append(@, Line(s, written[s] + 1))]
            /\ written' = [written EXCEPT ![s] = @ + 1]
            /\ UNCHANGED child
       ELSE \/ /\ child' = "exited"
               /\ UNCHANGED <<pipe, written>>
            \/ /\ written' = [written EXCEPT ![s] = @ + 1]
               /\ UNCHANGED <<pipe, child>>
    /\ UNCHANGED <<cfg, validatorVars, buildVars, chainVars, idx, context, pc, status, result,
                   drain, sinkVars, spawns>>

\* that child exits once it has made all its writes
ChildScriptExit ==
    /\ child = "running"
    /\ written["out"] + written["err"] = Len(Script)
    /\ child' = "exited"
    /\ UNCHANGED <<cfg, validatorVars, buildVars, chainVars, idx, context, pc, status, result,
                   written, pipe, drain, sinkVars, spawns>>

\* DrainLine reading the newest buffered line instead of the oldest
DrainLine_TakesLast(s) ==
    /\ drain[s] = "running"
    /\ pipe[s] # <<>>
    /\ LET line == pipe[s][Len(pipe[s])]
           target == TargetOf(s)
       IN  IF IsUtf8(line)
           THEN /\ Output_write(s, line)
                /\ pipe' = [pipe EXCEPT ![s] = SubSeq(@, 1, Len(@) - 1)]
                /\ drain' = IF Writer_panics(target)
                            THEN [drain EXCEPT ![s] = "panicked"]
                            ELSE IF target.kind = "File"
                                 THEN [drain EXCEPT ![s] = "newline"]
                                 ELSE drain
           ELSE /\ drain' = [drain EXCEPT ![s] = "readerr"]
                /\ pipe' = [pipe EXCEPT ![s] = <<>>]
                /\ UNCHANGED sinkVars
    /\ UNCHANGED <<cfg, validatorVars, buildVars, chainVars, idx, context, pc, status, result, child, written,
                   spawns>>

\* DrainLine in an execute that reads the pipes only after child.wait()
DrainLine_AfterWait(s) ==
    /\ child = "reaped"
    /\ DrainLine_TakesLast(s)

\* one turn of `while let Ok(Some(line)) = reader.next_line().await`:
\* a line is emitted, a line that cannot be decoded ends the loop
DrainLine(s) ==
    /\ drain[s] = "running"
    /\ pipe[s] # <<>>
    /\ LET line == Head(pipe[s])
           target == TargetOf(s)
       IN  IF IsUtf8(line)
           THEN /\ Output_write(s, line)
                /\ pipe' = [pipe EXCEPT ![s] = Tail(@)]
                /\ drain' = IF Writer_panics(target)
                            THEN [drain EXCEPT ![s] = "panicked"]
                            ELSE IF target.kind = "File"
                                 THEN [drain EXCEPT ![s] = "newline"]
                                 ELSE drain
           ELSE /\ drain' = [drain EXCEPT ![s] = "readerr"]
                /\ pipe' = [pipe EXCEPT ![s] = <<>>]
                /\ UNCHANGED sinkVars
    /\ UNCHANGED <<cfg, validatorVars, buildVars, chainVars, idx, context, pc, status, result, child, written,
                   spawns>>

\* the drain task is inside Writer::write on a File target and makes the
\* second write call of writeln!; Output::write returns and the loop goes on
DrainNewline(s) ==
    /\ drain[s] = "newline"
    /\ LET mine == SelectSeq(emitted, LAMBDA e : e.stream = s)
       IN  Writer_newline(s, mine[Len(mine)])
    /\ drain' = [drain EXCEPT ![s] = "running"]
    /\ UNCHANGED <<cfg, validatorVars, buildVars, chainVars, idx, context, pc, status, result, child, written,
                   pipe, spawns>>

\* next_line yields Ok(None): the pipe is empty and its write end is closed
DrainEof(s) ==
    /\ drain[s] = "running"
    /\ pipe[s] = <<>>
    /\ child \in {"exited", "reaped"}
    /\ drain' = [drain EXCEPT ![s] = "done"]
    /\ UNCHANGED <<cfg, validatorVars, buildVars, chainVars, idx, context, pc, status, result, child, written,
                   pipe, sinkVars, spawns>>

(***************************************************************************)
(* TerraformEnv and AwsEnv.                                                *)
(***************************************************************************)
\* str::to_lowercase, on the letters the keys are made of
to_lowercase(s) ==
    [i \in DOMAIN s |->
        CASE s[i] = "A" -> "a" [] s[i] = "F" -> "f" [] s[i] = "R" -> "r"
          [] s[i] = "S" -> "s" [] s[i] = "T" -> "t" [] s[i] = "V" -> "v"
          [] s[i] = "W" -> "w" [] OTHER -> s[i]]

\* the full_key of TerraformEnv with the key's letter case kept
TerraformEnv_full_key_CaseKept(key) ==
    IF ~StartsWith(key, <<"T", "F", "_", "V", "A", "R", "_">>)
    THEN <<"T", "F", "_", "V", "A", "R", "_">> \o key
    ELSE key

\* the full_key that TerraformEnv's add, remove, contains_key and get compute
TerraformEnv_full_key(key) ==
    LET key_lowercase == to_lowercase(key)
    IN  IF ~StartsWith(key_lowercase, <<"t", "f", "_", "v", "a", "r", "_">>)
        THEN <<"T", "F", "_", "V", "A", "R", "_">> \o key_lowercase
        ELSE <<"T", "F", "_", "V", "A", "R", "_">> \o Drop(key_lowercase, 7)

AwsEnv_normalize_key(key) ==
    LET lowered == to_lowercase(key)
    IN  IF StartsWith(lowered, <<"a", "w", "s", "_", "v", "a", "r", "_">>)
        THEN Drop(lowered, 8)
        ELSE lowered

\* the key under which the map of the action's environment holds `key`
StoredKey(key) ==
    IF cfg.caller = "terraform" THEN TerraformEnv_full_key(key)
    ELSE AwsEnv_normalize_key(key)

\* TerraformEnv::new / AwsEnv::new over the variables of the process
Env_new(caller, process_vars) ==
    IF caller = "terraform"
    THEN {<<Take(v[1], 7) \o to_lowercase(Drop(v[1], 7)), v[2]>> :
             v \in {w \in process_vars :
                       StartsWith(w[1], <<"T", "F", "_", "V", "A", "R", "_">>)}}
    ELSE {<<to_lowercase(Drop(v[1], 8)), v[2]>> :
             v \in {w \in process_vars :
                       StartsWith(w[1], <<"A", "W", "S", "_", "V", "A", "R", "_">>)}}

\* get(key): self.environment.get(&full_key)
get(key) ==
    IF \E e \in envs : e[1] = StoredKey(key)
    THEN Some((CHOOSE e \in envs : e[1] = StoredKey(key))[2])
    ELSE None

\* contains_key(key): self.environment.contains_key(&full_key)
contains_key(key) == \E e \in envs : e[1] = StoredKey(key)

\* add(key, value): self.environment.insert(full_key, value)
EnvAdd(key, value) ==
    /\ Len(calls) < MaxCalls
    /\ envs' = {e \in envs : e[1] # StoredKey(key)} \cup {<<StoredKey(key), value>>}
    /\ calls' = Append(calls, [op |-> "add", key |-> key, value |-> value, ret |-> None])
    /\ UNCHANGED <<cfg, validatorVars, chain, chainVars, idx, context, pc, status, result,
                   child, written, pipe, drain, sinkVars, spawns>>

\* remove(key): self.environment.remove(&full_key), which returns the value
\* the map held
EnvRemove(key) ==
    /\ Len(calls) < MaxCalls
    /\ envs' = {e \in envs : e[1] # StoredKey(key)}
    /\ calls' = Append(calls, [op |-> "remove", key |-> key, value |-> "-", ret |-> get(key)])
    /\ UNCHANGED <<cfg, validatorVars, chain, chainVars, idx, context, pc, status, result,
                   child, written, pipe, drain, sinkVars, spawns>>

(***************************************************************************)
(* Commands and the chain executors.                                       *)
(***************************************************************************)
T_terraform == <<"t", "f">>

T_aws == <<"a", "w", "s">>

T_s3 == <<"s", "3">>

T_init == <<"i", "n", "i", "t">>

T_reconfigure == <<"-", "r", "e", "c", "o", "n", "f", "i", "g", "u", "r", "e">>

T_plan == <<"p", "l", "a", "n">>

T_workspace == <<"w", "o", "r", "k", "s", "p", "a", "c", "e">>

T_new == <<"n", "e", "w">>

T_select == <<"s", "e", "l", "e", "c", "t">>

T_sync == <<"s", "y", "n", "c">>

T_delete == <<"-", "-", "d", "e", "l", "e", "t", "e">>

\* A HashMap<String, String> of a command or of a builder is the sequence of
\* its <<key, value>> entries in the order its iterator yields them; no two
\* entries have the same key.
HashMap_get(map, key) == map[CHOOSE i \in DOMAIN map : map[i][1] = key][2]

\* u8 of the characters keys are made of
Byte(c) ==
    CASE c = "1" -> 49 [] c = "2" -> 50 [] c = "e" -> 101 [] c = "k" -> 107
      [] c = "y" -> 121

\* Ord for String: bytewise lexicographic, a proper prefix comes first
RECURSIVE Less(_, _)
Less(a, b) ==
    IF a = <<>> THEN b # <<>>
    ELSE IF b = <<>> THEN FALSE
    ELSE IF a[1] # b[1] THEN Byte(a[1]) < Byte(b[1])
    ELSE Less(Tail(a), Tail(b))

\* keys.sort() with keys left in the order the map's iterator gave them
sort_Unsorted(keys) == keys

\* keys.sort()
RECURSIVE sort(_)
sort(keys) ==
    IF keys = <<>> THEN <<>>
    ELSE LET m == CHOOSE i \in DOMAIN keys :
                      \A j \in DOMAIN keys : ~Less(keys[j], keys[i])
         IN  <<keys[m]>>
             \o sort([i \in 1..(Len(keys) - 1) |-> IF i < m THEN keys[i] ELSE keys[i + 1]])

\* TerraformCommand values
Init_(dir, backend_config) ==
    [kind |-> "Init", op |-> "-", name |-> <<>>, dir |-> dir,
     backend_config |-> backend_config]

Plan_(dir, vars_, out) ==
    [kind |-> "Plan", op |-> "-", name |-> <<>>, dir |-> dir, vars |-> vars_, out |-> out]

Apply_(dir, plan_file, auto_approve) ==
    [kind |-> "Apply", op |-> "-", name |-> <<>>, dir |-> dir,
     plan_file |-> plan_file, auto_approve |-> auto_approve]

WorkspaceNew(dir, name) == [kind |-> "Workspace", op |-> "New", name |-> name, dir |-> dir]

WorkspaceSelect(dir, name) ==
    [kind |-> "Workspace", op |-> "Select", name |-> name, dir |-> dir]

\* AwsCommand::S3Sync; exclude and include are Option<Vec<String>>
S3Sync(source, destination, exclude, include, delete, dry_run, force) ==
    [kind |-> "S3Sync", op |-> "-", name |-> <<>>, dir |-> ".",
     source |-> source, destination |-> destination, exclude |-> exclude,
     include |-> include, delete |-> delete, dry_run |-> dry_run, force |-> force]

\* format!("{flag}{key}={value}") for each key of the map, keys sorted
KeyArgs(flag, map) ==
    LET keys == sort([i \in DOMAIN map |-> map[i][1]])
    IN  [i \in DOMAIN keys |-> flag \o keys[i] \o <<"=">> \o HashMap_get(map, keys[i])]

TerraformCommand_to_args(command) ==
    CASE command.kind = "Init" ->
             <<T_init, T_reconfigure>>
             \o (IF command.backend_config = None THEN <<>>
                 ELSE KeyArgs(<<"-", "b", "a", "c", "k", "e", "n", "d", "-",
                                "c", "o", "n", "f", "i", "g", "=">>,
                              command.backend_config[1]))
      [] command.kind = "Plan" ->
             <<T_plan>>
             \o KeyArgs(<<"-", "v", "a", "r", "=">>, command.vars)
             \o (IF command.out = None THEN <<>>
                 ELSE <<<<"-", "o", "u", "t">>, command.out[1]>>)
      [] command.kind = "Apply" ->
             <<<<"a", "p", "p", "l", "y">>>>
             \o (IF command.auto_approve
                 THEN <<<<"-", "a", "u", "t", "o", "-", "a", "p", "p", "r", "o", "v", "e">>>>
                 ELSE <<>>)
             \o (IF command.plan_file = None THEN <<>> ELSE <<command.plan_file[1]>>)
      [] command.kind = "Workspace" /\ command.op = "New" ->
             <<T_workspace, T_new, command.name>>
      [] command.kind = "Workspace" /\ command.op = "Select" ->
             <<T_workspace, T_select, command.name>>

\* format!("{flag}{pattern}") for each pattern of an Option<Vec<String>>
PatternArgs(flag, patterns) ==
    IF patterns = None THEN <<>>
    ELSE [i \in DOMAIN patterns[1] |-> flag \o patterns[1][i]]

AwsCommand_to_args(command) ==
    <<T_s3, T_sync, command.source, command.destination>>
    \o PatternArgs(<<"-", "-", "e", "x", "c", "l", "u", "d", "e", "=">>, command.exclude)
    \o PatternArgs(<<"-", "-", "i", "n", "c", "l", "u", "d", "e", "=">>, command.include)
    \o (IF command.delete THEN <<T_delete>> ELSE <<>>)
    \o (IF command.dry_run THEN <<<<"-", "-", "d", "r", "y", "r", "u", "n">>>> ELSE <<>>)
    \o (IF command.force THEN <<<<"-", "-", "f", "o", "r", "c", "e">>>> ELSE <<>>)

\* TerraformExecutor::execute up to the call of Subprocess::execute
TerraformExecutor_context(command) ==
    Context(<<T_terraform>> \o TerraformCommand_to_args(command), {},
            Some(command.dir), None)

\* AwsExecutor::execute up to the call of Subprocess::execute
AwsExecutor_context(command) ==
    Context(<<T_aws, T_s3>> \o AwsCommand_to_args(command), {}, Some("."), None)

\* .map_err(TerraformError::from) / .map_err(AwsError::from): the error
\* becomes the ExecuterError variant of the executor's own error type
ExecuterError_from(r) ==
    IF r.tag = "Err" THEN Err("ExecuterError(" \o r.kind \o ")", r.msg) ELSE r

IsWorkspaceNew(command) == command.kind = "Workspace" /\ command.op = "New"

\* CommandChain::new(dir) followed by with_vars, with_backend_config,
\* with_workspace, with_out and with_auto_approve
CommandChain(dir, vars_, backend_config, workspace, out, auto_approve) ==
    [dir |-> dir, vars |-> vars_, backend_config |-> backend_config,
     workspace |-> workspace, out |-> out, auto_approve |-> auto_approve]

\* build_workspace with the two commands in the other order
build_workspace_SelectFirst(self) ==
    IF self.workspace = None THEN None
    ELSE Some(<<WorkspaceSelect(self.dir, self.workspace[1]),
                WorkspaceNew(self.dir, self.workspace[1])>>)

build_workspace(self) ==
    IF self.workspace = None THEN None
    ELSE Some(<<WorkspaceNew(self.dir, self.workspace[1]),
                WorkspaceSelect(self.dir, self.workspace[1])>>)

\* build_init, the workspace commands if any, build_plan
plan_chain(self) ==
    <<Init_(self.dir, self.backend_config)>>
    \o (IF build_workspace(self) = None THEN <<>> ELSE build_workspace(self)[1])
    \o <<Plan_(self.dir, self.vars, self.out)>>

\* build_init, the workspace commands if any, build_apply
apply_chain(self) ==
    <<Init_(self.dir, self.backend_config)>>
    \o (IF build_workspace(self) = None THEN <<>> ELSE build_workspace(self)[1])
    \o <<Apply_(self.dir, self.out, self.auto_approve)>>

\* let commands = chain.plan_chain(), or chain.apply_chain(): the builder's
\* chain becomes the Vec handed to execute_chain
BuildChain(built) ==
    /\ cfg.caller = "terraform"
    /\ cpc = "Pending"
    /\ commands = <<>>
    /\ commands' = built
    /\ UNCHANGED <<cfg, validatorVars, buildVars, cpc, idx, last_result, chain_result,
                   exit_status, outcomes, context, pc, status, result, child, written, pipe,
                   drain, sinkVars, spawns>>

\* LoopTurn with an iterator that steps over a command
LoopTurn_SkipsACommand ==
    IF idx + 1 < Len(commands)
    THEN /\ idx' = idx + 2
         /\ context' = IF cfg.caller = "terraform"
                       THEN TerraformExecutor_context(commands[idx + 2])
                       ELSE AwsExecutor_context(commands[idx + 2])
         /\ pc' = "launch"
         /\ cpc' = "Loop"
         /\ UNCHANGED chain_result
    ELSE /\ chain_result' = Ok(last_result')
         /\ cpc' = "Returned"
         /\ pc' = "idle"
         /\ UNCHANGED <<idx, context>>

\* one turn of `for cmd in &commands`: self.execute(cmd.clone()) is called
\* for the next command, or the loop is exhausted and Ok(last_result) returned
LoopTurn ==
    IF idx < Len(commands)
    THEN /\ idx' = idx + 1
         /\ context' = IF cfg.caller = "terraform"
                       THEN TerraformExecutor_context(commands[idx + 1])
                       ELSE AwsExecutor_context(commands[idx + 1])
         /\ pc' = "launch"
         /\ cpc' = "Loop"
         /\ UNCHANGED chain_result
    ELSE /\ chain_result' = Ok(last_result')
         /\ cpc' = "Returned"
         /\ pc' = "idle"
         /\ UNCHANGED <<idx, context>>

\* execute_chain is entered: let mut last_result = 0, and the first loop turn
ChainStart ==
    /\ cfg.caller \in {"terraform", "aws"}
    /\ cpc = "Pending"
    /\ last_result' = 0
    /\ LoopTurn
    /\ UNCHANGED <<cfg, validatorVars, buildVars, commands, exit_status, outcomes, status, result, child, written, pipe, drain,
                   sinkVars, spawns>>

\* ChainMatch without `if code != 0 { return Ok(code); }`
ChainMatch_NoShortCircuit ==
    /\ cpc = "Loop"
    /\ pc = "done"
    /\ outcomes' = Append(outcomes, ExecuterError_from(result))
    /\ IF result.tag = "Ok"
       THEN IF cfg.caller = "terraform" /\ IsWorkspaceNew(commands[idx]) /\ result.code # 0
            THEN /\ UNCHANGED last_result
                 /\ LoopTurn
            ELSE /\ last_result' = result.code
                 /\ LoopTurn
       ELSE /\ chain_result' = ExecuterError_from(result)
            /\ cpc' = "Returned"
            /\ pc' = "idle"
            /\ UNCHANGED <<last_result, idx, context>>
    /\ result' = NoResult
    /\ UNCHANGED <<cfg, validatorVars, buildVars, commands, exit_status, status, child, written, pipe, drain, sinkVars,
                   spawns>>

\* ChainMatch without the `continue` for a failed Workspace New
ChainMatch_NoWorkspaceException ==
    /\ cpc = "Loop"
    /\ pc = "done"
    /\ outcomes' = Append(outcomes, ExecuterError_from(result))
    /\ IF result.tag = "Ok"
       THEN /\ last_result' = result.code
            /\ IF result.code # 0
               THEN /\ chain_result' = Ok(result.code)
                    /\ cpc' = "Returned"
                    /\ pc' = "idle"
                    /\ UNCHANGED <<idx, context>>
               ELSE LoopTurn
       ELSE /\ chain_result' = ExecuterError_from(result)
            /\ cpc' = "Returned"
            /\ pc' = "idle"
            /\ UNCHANGED <<last_result, idx, context>>
    /\ result' = NoResult
    /\ UNCHANGED <<cfg, validatorVars, buildVars, commands, exit_status, status, child, written, pipe, drain, sinkVars,
                   spawns>>

\* ChainMatch with the Workspace New exception widened to execution errors
ChainMatch_WorkspaceErrorContinues ==
    /\ cpc = "Loop"
    /\ pc = "done"
    /\ outcomes' = Append(outcomes, ExecuterError_from(result))
    /\ IF cfg.caller = "terraform" /\ IsWorkspaceNew(commands[idx])
          /\ (result.tag = "Err" \/ result.code # 0)
       THEN /\ UNCHANGED last_result
            /\ LoopTurn
       ELSE IF result.tag = "Ok"
            THEN /\ last_result' = result.code
                 /\ IF result.code # 0
                    THEN /\ chain_result' = Ok(result.code)
                         /\ cpc' = "Returned"
                         /\ pc' = "idle"
                         /\ UNCHANGED <<idx, context>>
                    ELSE LoopTurn
            ELSE /\ chain_result' = ExecuterError_from(result)
                 /\ cpc' = "Returned"
                 /\ pc' = "idle"
                 /\ UNCHANGED <<last_result, idx, context>>
    /\ result' = NoResult
    /\ UNCHANGED <<cfg, validatorVars, buildVars, commands, exit_status, status, child, written, pipe, drain, sinkVars,
                   spawns>>

\* ChainMatch calling self.execute a second time for a command that failed
ChainMatch_RetriesFailed ==
    /\ cpc = "Loop"
    /\ pc = "done"
    /\ outcomes' = Append(outcomes, ExecuterError_from(result))
    /\ IF result.tag = "Ok"
       THEN IF cfg.caller = "terraform" /\ IsWorkspaceNew(commands[idx]) /\ result.code # 0
            THEN /\ UNCHANGED last_result
                 /\ LoopTurn
            ELSE /\ last_result' = result.code
                 /\ IF result.code # 0
                    THEN /\ chain_result' = Ok(result.code)
                         /\ cpc' = "Returned"
                         /\ pc' = "idle"
                         /\ UNCHANGED <<idx, context>>
                    ELSE LoopTurn
       ELSE IF Len(outcomes) < idx
            THEN /\ pc' = "launch"
                 /\ UNCHANGED <<chain_result, cpc, last_result, idx, context>>
            ELSE /\ chain_result' = ExecuterError_from(result)
                 /\ cpc' = "Returned"
                 /\ pc' = "idle"
                 /\ UNCHANGED <<last_result, idx, context>>
    /\ result' = NoResult
    /\ UNCHANGED <<cfg, validatorVars, buildVars, commands, exit_status, status, child, written, pipe, drain, sinkVars,
                   spawns>>

\* ChainMatch with last_result assigned before the Workspace New test
ChainMatch_NewCodeKept ==
    /\ cpc = "Loop"
    /\ pc = "done"
    /\ outcomes' = Append(outcomes, ExecuterError_from(result))
    /\ IF result.tag = "Ok"
       THEN /\ last_result' = result.code
            /\ IF cfg.caller = "terraform" /\ IsWorkspaceNew(commands[idx]) /\ result.code # 0
               THEN LoopTurn
               ELSE IF result.code # 0
                    THEN /\ chain_result' = Ok(result.code)
                         /\ cpc' = "Returned"
                         /\ pc' = "idle"
                         /\ UNCHANGED <<idx, context>>
                    ELSE LoopTurn
       ELSE /\ chain_result' = ExecuterError_from(result)
            /\ cpc' = "Returned"
            /\ pc' = "idle"
            /\ UNCHANGED <<last_result, idx, context>>
    /\ result' = NoResult
    /\ UNCHANGED <<cfg, validatorVars, buildVars, commands, exit_status, status, child, written,
                   pipe, drain, sinkVars, spawns>>

\* self.execute(..).await has returned: the match on its result, and the
\* next loop turn when the chain goes on
ChainMatch ==
    /\ cpc = "Loop"
    /\ pc = "done"
    /\ outcomes' = Append(outcomes, ExecuterError_from(result))
    /\ IF result.tag = "Ok"
       THEN IF cfg.caller = "terraform" /\ IsWorkspaceNew(commands[idx]) /\ result.code # 0
            THEN /\ UNCHANGED last_result
                 /\ LoopTurn
            ELSE /\ last_result' = result.code
                 /\ IF result.code # 0
                    THEN /\ chain_result' = Ok(result.code)
                         /\ cpc' = "Returned"
                         /\ pc' = "idle"
                         /\ UNCHANGED <<idx, context>>
                    ELSE LoopTurn
       ELSE /\ chain_result' = ExecuterError_from(result)
            /\ cpc' = "Returned"
            /\ pc' = "idle"
            /\ UNCHANGED <<last_result, idx, context>>
    /\ result' = NoResult
    /\ UNCHANGED <<cfg, validatorVars, buildVars, commands, exit_status, status, child, written, pipe, drain, sinkVars,
                   spawns>>

\* the exit status of a Rust process whose main returns Err
MainFailure == 1

\* main of the terraform and of the aws action after execute_chain:
\* `executor.execute_chain(commands).await?` (`let status = result?`), the
\* log line chosen by the returned code, and Ok(())
MainReturns ==
    /\ cpc = "Returned"
    /\ exit_status = None
    /\ exit_status' = IF chain_result.tag = "Err" THEN Some(MainFailure) ELSE Some(0)
    /\ UNCHANGED <<cfg, validatorVars, buildVars, commands, cpc, idx, last_result, chain_result, outcomes, context, pc,
                   status, result, child, written, pipe, drain, sinkVars, spawns>>

(***************************************************************************)
(* A caller that runs one request through Subprocess::execute.             *)
(***************************************************************************)
T_ls == <<"l", "s">>

T_sh == <<"s", "h">>

T_script == <<"a", ";", "b">>

EnvOk == {<<<<"K">>, <<"v">>>>}

EnvBlank == {<<<<"K">>, <<" ">>>>}

DirectContexts ==
    {Context(<<T_ls>>, EnvOk, Some("/work"), t) : t \in {None, Some(1)}}
    \cup {Context(<<T_sh, DashC, T_script>>, {}, None, None),
          Context(<<>>, {}, None, None),
          Context(<<T_ls, T_script>>, {}, None, Some(1)),
          Context(<<T_ls>>, EnvBlank, None, None),
          Context(<<T_ls>>, {}, Some("/gone"), None),
          Context(<<T_ls>>, {}, Some("/work/main.tf"), None)}

DirectCall ==
    /\ cfg.caller = "direct"
    /\ pc = "idle"
    /\ idx = 0
    /\ idx' = 1
    /\ \E c \in DirectContexts : context' = c
    /\ pc' = "launch"
    /\ UNCHANGED <<cfg, validatorVars, buildVars, chainVars, status, result, child, written, pipe, drain,
                   sinkVars, spawns>>

(***************************************************************************)
(* A caller that builds a Validator and validates one request with it.     *)
(***************************************************************************)
\* Validator::new that keeps the rules in the order they were supplied
ValidatorNew_KeepsOrder ==
    /\ pc = "new"
    /\ pc' = "validate"
    /\ UNCHANGED <<cfg, validatorVars, buildVars, chainVars, idx, context, status, result, child, written,
                   pipe, drain, sinkVars, spawns>>

\* Validator::new(rules): rules.sort_by_key(|rule| rule.priority())
ValidatorNew ==
    /\ pc = "new"
    /\ rules' = Validator_new(rules)
    /\ pc' = "validate"
    /\ UNCHANGED <<cfg, buildVars, evaluated, chainVars, idx, context, status, result, child, written,
                   pipe, drain, sinkVars, spawns>>

\* one turn of `for rule in self.rules.iter() { rule.validate(context)?; }`
\* of Validator::validate, or the Ok(()) after the last rule
ValidateTurn ==
    /\ pc = "validate"
    /\ IF Len(evaluated) < Len(rules)
       THEN LET rule == rules[Len(evaluated) + 1]
            IN  /\ evaluated' = Append(evaluated, rule)
                /\ \E r \in ValidationRule_validate(rule, context) :
                       IF r.tag = "Err"
                       THEN result' = r /\ pc' = "done"
                       ELSE UNCHANGED <<result, pc>>
       ELSE /\ result' = Ok(0)
            /\ pc' = "done"
            /\ UNCHANGED evaluated
    /\ UNCHANGED <<cfg, buildVars, rules, chainVars, idx, context, status, child, written, pipe, drain,
                   sinkVars, spawns>>

(***************************************************************************)
(* Specification.                                                          *)
(***************************************************************************)
TargetPairs ==
    {<<Stdout, Stderr>>, <<File("out.log"), File("out.log")>>,
     <<File("out.log"), File("err.log")>>, <<File("/ro/out.log"), Stderr>>,
     <<Stdout, File("/ro/err.log")>>}

AwsTargetPairs == {<<Stdout, Stderr>>, <<File("/ro/out.log"), Stderr>>}

TerraformCommands ==
    {Plan_("/work", <<>>, None), WorkspaceNew("/work", <<"d", "e", "v">>),
     WorkspaceNew("/gone", <<"d", "e", "v">>)}

AwsCommands == {S3Sync(<<"s", "r", "c">>, <<"d", "s", "t">>, None, None, TRUE, FALSE, FALSE)}

SeqsUpTo(S, n) == UNION {[1..k -> S] : k \in 0..n}

Output_new(processor, output_target, error_target, caller) ==
    [processor |-> processor, output_target |-> output_target,
     error_target |-> error_target, caller |-> caller]

\* the state before any call, common to both specifications
Idle ==
    /\ rules = Validator_default
    /\ evaluated = <<>>
    /\ cpc = "Pending"
    /\ idx = 0
    /\ last_result = 0
    /\ chain_result = NoResult
    /\ exit_status = None
    /\ outcomes = <<>>
    /\ context = NoContext
    /\ pc = "idle"
    /\ status = None
    /\ result = NoResult
    /\ child = NoChild
    /\ written = [s \in Streams |-> 0]
    /\ pipe = [s \in Streams |-> <<>>]
    /\ drain = [s \in Streams |-> "none"]
    /\ emitted = <<>>
    /\ nprinted = [l \in Loggers |-> 0]
    /\ fwrites = <<>>
    /\ spawns = <<>>

\* One request run through Subprocess::execute, for every pair of targets.
Init ==
    /\ \E t \in TargetPairs : cfg = Output_new(Processors, t[1], t[2], "direct")
    /\ commands = <<>>
    /\ chain = None
    /\ envs = {}
    /\ calls = <<>>
    /\ Idle

Next ==
    \/ DirectCall
    \/ Launch
    \/ WaitReturns
    \/ TimeoutElapses
    \/ KillAndReturn
    \/ JoinStdout
    \/ JoinStderr
    \/ ChildExit
    \/ \E s \in Streams : ChildWrite(s)
    \/ \E s \in Streams : DrainLine(s)
    \/ \E s \in Streams : DrainNewline(s)
    \/ \E s \in Streams : DrainEof(s)
    \/ \E l \in Loggers : LoggerWorker(l)

Spec == Init /\ [][Next]_vars

\* A chain run through TerraformExecutor::execute_chain or
\* AwsExecutor::execute_chain.  Neither sets a timeout; TerraformExecutor::new
\* builds its Output on Stdout and Stderr, AwsExecutor::new is handed a
\* Subprocess whose Output may write anywhere.
InitChain ==
    /\ \/ /\ cfg = Output_new(Processors, Stdout, Stderr, "terraform")
          /\ commands \in SeqsUpTo(TerraformCommands, MaxChain)
       \/ /\ \E t \in AwsTargetPairs : cfg = Output_new(Processors, t[1], t[2], "aws")
          /\ commands \in SeqsUpTo(AwsCommands, MaxChain)
    /\ chain = None
    /\ envs = {}
    /\ calls = <<>>
    /\ Idle

NextChain ==
    \/ ChainStart
    \/ ChainMatch
    \/ MainReturns
    \/ Launch
    \/ WaitReturns
    \/ JoinStdout
    \/ JoinStderr
    \/ ChildExit
    \/ \E s \in Streams : ChildWrite(s)
    \/ \E s \in Streams : DrainLine(s)
    \/ \E s \in Streams : DrainEof(s)
    \/ \E l \in Loggers : LoggerWorker(l)

SpecChain == InitChain /\ [][NextChain]_vars

\* The redaction pipeline on its own: one line of any content over a small
\* alphabet sits in the stdout pipe of a child that has exited, under every
\* rule list drawn from a small set of rules.
MaskAlphabet == {"a", "b"}

LinesUpTo(n) == UNION {[1..k -> MaskAlphabet] : k \in 0..n}

MaskLiterals == {<<"a", "b">>, <<"b", "b">>}

MaskTokens == {<<"*">>, <<"a">>}

\* ba+
MaskPattern == [lit |-> <<"b">>, cls |-> {"a"}, min |-> 1, max |-> 1000]

MaskRules ==
    {Equal(<<l>>, m) : l \in MaskLiterals, m \in MaskTokens}
    \cup {Equal(<<l1, l2>>, m) : <<l1, l2, m>> \in
              {t \in MaskLiterals \X MaskLiterals \X MaskTokens : t[1] # t[2]}}
    \cup {Regex(<<MaskPattern>>, m) : m \in MaskTokens}

RuleLists == SeqsUpTo(MaskRules, 2)

InitMask ==
    /\ \E p \in RuleLists : cfg = Output_new(p, Stdout, File("out.log"), "direct")
    /\ \E line \in LinesUpTo(MaxLen) : pipe = [s \in Streams |-> IF s = "out" THEN <<line>> ELSE <<>>]
    /\ rules = Validator_default
    /\ evaluated = <<>>
    /\ commands = <<>>
    /\ cpc = "Pending"
    /\ idx = 1
    /\ last_result = 0
    /\ chain_result = NoResult
    /\ exit_status = None
    /\ outcomes = <<>>
    /\ context = Context(<<T_ls>>, {}, None, None)
    /\ pc = "wait"
    /\ status = None
    /\ result = NoResult
    /\ child = "exited"
    /\ written = [s \in Streams |-> IF s = "out" THEN 1 ELSE 0]
    /\ drain = [s \in Streams |-> "running"]
    /\ emitted = <<>>
    /\ nprinted = [l \in Loggers |-> 0]
    /\ fwrites = <<>>
    /\ spawns = <<1>>
    /\ chain = None
    /\ envs = {}
    /\ calls = <<>>

NextMask ==
    \/ WaitReturns
    \/ JoinStdout
    \/ JoinStderr
    \/ \E s \in Streams : DrainLine(s)
    \/ \E s \in Streams : DrainEof(s)
    \/ \E l \in Loggers : LoggerWorker(l)

SpecMask == InitMask /\ [][NextMask]_vars

\* A child that reads its standard input and writes nothing, run by one
\* direct call.  The runtime schedules every task that can run; the child is
\* one that exits when it is not held up.
NextStdin ==
    \/ DirectCall
    \/ Launch
    \/ WaitReturns
    \/ TimeoutElapses
    \/ KillAndReturn
    \/ JoinStdout
    \/ JoinStderr
    \/ ChildReadsStdin
    \/ ChildStdinEof
    \/ ChildExit
    \/ \E s \in Streams : DrainEof(s)

SpecStdin ==
    /\ Init
    /\ [][NextStdin]_vars
    /\ WF_vars(WaitReturns)
    /\ WF_vars(KillAndReturn)
    /\ WF_vars(JoinStdout)
    /\ WF_vars(JoinStderr)
    /\ WF_vars(ChildStdinEof)
    /\ SF_vars(ChildExit)
    /\ \A s \in Streams : WF_vars(DrainEof(s))

\* The same line read by both drain tasks: the stdout pipe holds another
\* line and then the line, the stderr pipe holds the line, under every rule
\* list of the redaction specification.  The workers of the loggers are left
\* out: what is compared is what the calls hand to the loggers.
InitTwice ==
    /\ \E p \in RuleLists : cfg = Output_new(p, Stdout, Stderr, "direct")
    /\ \E line \in LinesUpTo(MaxLen), other \in LinesUpTo(1) :
          pipe = [s \in Streams |-> IF s = "out" THEN <<other, line>> ELSE <<line>>]
    /\ rules = Validator_default
    /\ evaluated = <<>>
    /\ commands = <<>>
    /\ cpc = "Pending"
    /\ idx = 1
    /\ last_result = 0
    /\ chain_result = NoResult
    /\ exit_status = None
    /\ outcomes = <<>>
    /\ context = Context(<<T_ls>>, {}, None, None)
    /\ pc = "wait"
    /\ status = None
    /\ result = NoResult
    /\ child = "exited"
    /\ written = [s \in Streams |-> IF s = "out" THEN 2 ELSE 1]
    /\ drain = [s \in Streams |-> "running"]
    /\ emitted = <<>>
    /\ nprinted = [l \in Loggers |-> 0]
    /\ fwrites = <<>>
    /\ spawns = <<1>>
    /\ chain = None
    /\ envs = {}
    /\ calls = <<>>

NextTwice ==
    \/ WaitReturns
    \/ JoinStdout
    \/ JoinStderr
    \/ \E s \in Streams : DrainLine(s)
    \/ \E s \in Streams : DrainEof(s)

SpecTwice == InitTwice /\ [][NextTwice]_vars

\* TerraformEnv::values: the values of the map, in the order the HashMap
\* iterates, which is any order
TerraformEnv_values ==
    {[i \in 1..Cardinality(envs) |-> order[i][2]] :
        order \in {o \in [1..Cardinality(envs) -> envs] :
                      \A i, j \in 1..Cardinality(envs) : o[i] = o[j] => i = j}}

\* The rule list main builds from the process environment: the provider's
\* rules, then MaskerEqual over the values of the TF_VAR_ variables, which
\* may be empty strings; one line of any content sits in the stdout pipe of a
\* child that has exited.
InitValues ==
    /\ \E process_vars \in
           {vs \in SUBSET ({<<"T", "F", "_", "V", "A", "R", "_", "A">>,
                            <<"T", "F", "_", "V", "A", "R", "_", "b">>,
                            <<"b">>}
                           \X {<<>>, <<"b">>, <<"a", "b">>}) :
               \A v, w \in vs : v[1] = w[1] => v = w} :
          envs = Env_new("terraform", process_vars)
    /\ \E values \in TerraformEnv_values :
          cfg = Output_new(Processors \o <<Equal(values, Mask)>>, Stdout, Stderr, "terraform")
    /\ \E line \in LinesUpTo(MaxLen) : pipe = [s \in Streams |-> IF s = "out" THEN <<line>> ELSE <<>>]
    /\ rules = Validator_default
    /\ evaluated = <<>>
    /\ commands = <<>>
    /\ cpc = "Pending"
    /\ idx = 1
    /\ last_result = 0
    /\ chain_result = NoResult
    /\ exit_status = None
    /\ outcomes = <<>>
    /\ context = Context(<<T_terraform, T_plan>>, {}, None, None)
    /\ pc = "wait"
    /\ status = None
    /\ result = NoResult
    /\ child = "exited"
    /\ written = [s \in Streams |-> IF s = "out" THEN 1 ELSE 0]
    /\ drain = [s \in Streams |-> "running"]
    /\ emitted = <<>>
    /\ nprinted = [l \in Loggers |-> 0]
    /\ fwrites = <<>>
    /\ spawns = <<1>>
    /\ chain = None
    /\ calls = <<>>

SpecValues == InitValues /\ [][NextMask]_vars

\* One request whose child writes a given finite sequence of lines to its
\* two streams and exits, with and without a timeout, for every pair of
\* targets; the runtime runs every task that can run and the child is
\* scheduled by the system, so no step that stays possible waits forever.
InitPipes ==
    /\ \E t \in TargetPairs \cup {<<File("/ro/out.log"), File("/ro/err.log")>>} :
          cfg = Output_new(Processors, t[1], t[2], "direct")
    /\ \E script \in SeqsUpTo({<<"o">>, <<"e">>}, MaxScript), t \in {None, Some(1)} :
          context = Context(<<T_sh>> \o script, {}, None, t)
    /\ rules = Validator_default
    /\ evaluated = <<>>
    /\ commands = <<>>
    /\ cpc = "Pending"
    /\ idx = 1
    /\ last_result = 0
    /\ chain_result = NoResult
    /\ exit_status = None
    /\ outcomes = <<>>
    /\ pc = "launch"
    /\ status = None
    /\ result = NoResult
    /\ child = NoChild
    /\ written = [s \in Streams |-> 0]
    /\ pipe = [s \in Streams |-> <<>>]
    /\ drain = [s \in Streams |-> "none"]
    /\ emitted = <<>>
    /\ nprinted = [l \in Loggers |-> 0]
    /\ fwrites = <<>>
    /\ spawns = <<>>
    /\ chain = None
    /\ envs = {}
    /\ calls = <<>>

NextPipes ==
    \/ Launch
    \/ WaitReturns
    \/ TimeoutElapses
    \/ KillAndReturn
    \/ JoinStdout
    \/ JoinStderr
    \/ ChildScriptExit
    \/ \E s \in Streams : ChildScriptWrite(s)
    \/ \E s \in Streams : DrainLine(s)
    \/ \E s \in Streams : DrainNewline(s)
    \/ \E s \in Streams : DrainEof(s)

SpecPipes ==
    /\ InitPipes
    /\ [][NextPipes]_vars
    /\ WF_vars(Launch)
    /\ WF_vars(WaitReturns)
    /\ WF_vars(KillAndReturn)
    /\ WF_vars(JoinStdout)
    /\ WF_vars(JoinStderr)
    /\ WF_vars(ChildScriptExit)
    /\ \A s \in Streams : /\ WF_vars(ChildScriptWrite(s))
                          /\ WF_vars(DrainLine(s))
                          /\ WF_vars(DrainNewline(s))
                          /\ WF_vars(DrainEof(s))

\* The validator on its own: every list of up to MaxRules distinct rules, in
\* every order, is handed to Validator::new, and the validator validates a
\* request: one of those of the direct caller, one that fails two rules, or
\* any list of up to MaxTokens tokens.
MaxRules == 3

MaxTokens == 3

RuleNames == {"cmd", "environment", "path", "high priority", "low priority"}

T_dashc_semi == <<"-", "c", ";">>

T_amp == <<"&">>

CmdTokens == {T_ls, DashC, T_script, T_dashc_semi, T_amp}

MaxEnv == 2

EnvKeys == {<<"K">>, <<>>, <<" ">>}

EnvValues == {<<"v">>, <<>>, <<"\t">>, <<" ", "v">>}

\* the HashMaps of up to MaxEnv overrides: no key occurs twice
EnvMaps ==
    {m \in SUBSET (EnvKeys \X EnvValues) :
        /\ Cardinality(m) <= MaxEnv
        /\ \A e, f \in m : e[1] = f[1] => e = f}

ValidatorContexts ==
    DirectContexts
    \cup {Context(<<>>, {}, Some("/gone"), None)}
    \cup {Context(c, {}, None, None) : c \in SeqsUpTo(CmdTokens, MaxTokens)}
    \cup {Context(<<T_ls>>, m, None, None) : m \in EnvMaps}

InitValidator ==
    /\ cfg = Output_new(Processors, Stdout, Stderr, "direct")
    /\ rules \in {rs \in SeqsUpTo(RuleNames, MaxRules) :
                     \A i, j \in DOMAIN rs : i # j => rs[i] # rs[j]}
    /\ evaluated = <<>>
    /\ commands = <<>>
    /\ cpc = "Pending"
    /\ idx = 0
    /\ last_result = 0
    /\ chain_result = NoResult
    /\ exit_status = None
    /\ outcomes = <<>>
    /\ context \in ValidatorContexts
    /\ pc = "new"
    /\ status = None
    /\ result = NoResult
    /\ child = NoChild
    /\ written = [s \in Streams |-> 0]
    /\ pipe = [s \in Streams |-> <<>>]
    /\ drain = [s \in Streams |-> "none"]
    /\ emitted = <<>>
    /\ nprinted = [l \in Loggers |-> 0]
    /\ fwrites = <<>>
    /\ spawns = <<>>
    /\ chain = None
    /\ envs = {}
    /\ calls = <<>>

NextValidator ==
    \/ ValidatorNew
    \/ ValidateTurn

SpecValidator == InitValidator /\ [][NextValidator]_vars

\* The chains as the actions build them: a CommandChain with any of a few
\* maps of variables and of backend settings, in any iteration order, with or
\* without a workspace (one name holds a forbidden character), an out file
\* and auto-approve, is turned into a plan or an apply chain and run; or one
\* S3Sync command with any options is run.
\* The children write nothing.
InitBuild ==
    LET Entries == {<<<<"k", "e", "y", "1">>, <<"v", "a", "l", "u", "e", "1">>>>,
                    <<<<"k", "e", "y", "2">>, <<"v", "a", "l", "u", "e", "2">>>>,
                    <<<<"k", "e", "y">>, <<"v", "a", "l", "u", "e">>>>}
        HashMaps == {m \in SeqsUpTo(Entries, MaxEnv) :
                        \A i, j \in DOMAIN m : i # j => m[i] # m[j]}
        Patterns == {None, Some(<<<<"*", "t">>>>), Some(<<<<"*", "t">>, <<"*", "b">>>>)}
    IN  /\ \/ /\ cfg = Output_new(Processors, Stdout, Stderr, "terraform")
              /\ \E vs \in HashMaps, bc \in {None} \cup {Some(m) : m \in HashMaps},
                    ws \in {None, Some(<<"d", "e", "v">>), Some(<<"d", ";">>)},
                    out \in {None, Some(<<"p">>)}, aa \in BOOLEAN :
                     chain = CommandChain("/work", vs, bc, ws, out, aa)
              /\ commands = <<>>
           \/ /\ cfg = Output_new(Processors, Stdout, Stderr, "aws")
              /\ chain = None
              /\ \E ex \in Patterns, inc \in {None, Some(<<<<"*", "l">>>>)},
                    delete \in BOOLEAN, dry_run \in BOOLEAN, force \in BOOLEAN :
                     commands = <<S3Sync(<<"s", "r", "c">>, <<"d", "s", "t">>, ex, inc,
                                         delete, dry_run, force)>>
        /\ envs = {}
        /\ calls = <<>>
        /\ Idle

NextBuild ==
    \/ BuildChain(plan_chain(chain))
    \/ BuildChain(apply_chain(chain))
    \/ ChainStart
    \/ ChainMatch
    \/ Launch
    \/ WaitReturns
    \/ JoinStdout
    \/ JoinStderr
    \/ ChildExit
    \/ \E s \in Streams : DrainEof(s)

SpecBuild == InitBuild /\ [][NextBuild]_vars

\* The variables of an action on their own: TerraformEnv::new or AwsEnv::new
\* over the process environment, then up to MaxCalls calls of add and remove
\* with keys in every spelling: upper and lower case, with the prefix in
\* either case, with the prefix twice, with the other action's prefix.
EnvNames ==
    {<<"a">>, <<"A">>, <<"b">>,
     <<"T", "F", "_", "V", "A", "R", "_", "a">>, <<"t", "f", "_", "v", "a", "r", "_", "A">>,
     <<"A", "W", "S", "_", "V", "A", "R", "_", "a">>,
     <<"a", "w", "s", "_", "V", "A", "R", "_", "A">>,
     <<"T", "F", "_", "V", "A", "R", "_", "T", "F", "_", "V", "A", "R", "_", "a">>}

InitEnv ==
    /\ \E caller \in {"terraform", "aws"} :
          /\ cfg = Output_new(Processors, Stdout, Stderr, caller)
          /\ \E process_vars \in
                 {{}, {<<<<"T", "F", "_", "V", "A", "R", "_", "A">>, "v0">>,
                       <<<<"A", "W", "S", "_", "V", "A", "R", "_", "A">>, "v0">>,
                       <<<<"t", "f", "_", "v", "a", "r", "_", "b">>, "v0">>,
                       <<<<"b">>, "v0">>}} :
                envs = Env_new(caller, process_vars)
    /\ calls = <<>>
    /\ commands = <<>>
    /\ chain = None
    /\ Idle

NextEnv ==
    \/ \E key \in EnvNames, value \in {"v1", "v2"} : EnvAdd(key, value)
    \/ \E key \in EnvNames : EnvRemove(key)

SpecEnv == InitEnv /\ [][NextEnv]_vars

(***************************************************************************)
(* Properties of Subprocess::execute and of the redaction pipeline.         *)
(***************************************************************************)
\* C1: whatever is written to any sink (standard out, standard error, a
\* file, a diagnostic) for a line the rules change never holds the
\* unredacted line.
C1_UnredactedLineNeverWritten ==
    \A r \in SinkRecords :
        process(cfg.processor, r.origin.raw) # r.origin.raw
            => ~Contains(r.text, r.origin.raw)

\* a rule applies to a line: one of its literals occurs in it, or one of its
\* patterns matches somewhere in it
Applies(rule, line) ==
    \E i \in DOMAIN rule.items :
        IF rule.kind = "Equal" THEN Contains(line, rule.items[i])
        ELSE \E k \in 0..(Len(line) - 1) : MatchLen(Drop(line, k), rule.items[i]) > 0

\* the configured literal secrets
Literals(processors) ==
    UNION {Range(processors[i].items) : i \in {j \in DOMAIN processors : processors[j].kind = "Equal"}}

\* C2 (under SpecMask): for every rule list and every line some rule applies
\* to, what the Output hands to standard out and to files holds no
\* configured literal secret and holds the mask token of a configured rule.
C2_RedactionComplete ==
    \A r \in Range(fdOut) \cup UNION {Range(file(p)) : p \in WritablePaths} :
        (\E i \in DOMAIN cfg.processor : Applies(cfg.processor[i], r.origin.raw))
            => /\ \A lit \in Literals(cfg.processor) : ~Contains(r.text, lit)
               /\ \E i \in DOMAIN cfg.processor : Contains(r.text, cfg.processor[i].mask)

\* C3: when execute has returned from a spawned child, by success, by a
\* non-zero exit or by the timeout, neither drain task is still running and
\* no line is left unread in a pipe.
C3_DrainsJoinedBeforeReturn ==
    (/\ pc = "done"
     /\ spawns # <<>>
     /\ \/ result.tag = "Ok"
        \/ context.timeout # None /\ result.msg = TimedOut(context.timeout[1]))
        => \A s \in Streams : drain[s] \in {"done", "readerr"} /\ pipe[s] = <<>>

Rejected(c) ==
    \/ c.command = <<>>
    \/ \E r \in Validator_validate(Validator_default, c) : r.tag = "Err"

\* C4: a rejected request (an empty token list in particular) makes execute
\* return a validation error with no process spawned, no drain task created
\* and nothing written to a sink.
C4_RejectedRequestHasNoEffect ==
    (pc = "done" /\ Rejected(context))
        => /\ result.tag = "Err"
           /\ result.kind = "ValidationError"
           /\ spawns = <<>>
           /\ child = NoChild
           /\ \A s \in Streams : drain[s] = "none"
           /\ emitted = <<>>
           /\ SinkRecords = {}

C4_Witness ==
    /\ pc = "done"
    /\ context.command = <<>>
    /\ result = Err("ValidationError", "Empty command sequence")

Flushed == \A l \in Loggers : logq(l) = <<>>

\* the redacted lines of a stream, in the order the child wrote them
Redacted(s) == [k \in 1..written[s] |-> process(cfg.processor, Line(s, k))]

Texts(recs) == [i \in DOMAIN recs |-> recs[i].text]

\* every line the child wrote was text and has been handed to the Output
AllLinesEmitted == Len(emitted) = written["out"] + written["err"]

\* C10: after a child that wrote N lines to stdout and M to stderr has
\* exited and execute has returned its code, the sink bound to stdout holds
\* exactly the N redacted stdout lines and the sink bound to stderr exactly
\* the M redacted stderr lines.
C10_LineIntegrity ==
    (/\ pc = "done"
     /\ result.tag = "Ok"
     /\ Flushed
     /\ AllLinesEmitted
     /\ cfg.output_target # cfg.error_target)
        => /\ Texts(Sink(cfg.output_target)) = Redacted("out")
           /\ Texts(Sink(cfg.error_target)) = Redacted("err")

(***************************************************************************)
(* Properties of execute_chain, under SpecChain.                           *)
(***************************************************************************)
\* the command at index i failed and is a Workspace New of terraform
WorkspaceNewFailed(i) ==
    /\ cfg.caller = "terraform"
    /\ IsWorkspaceNew(commands[i])
    /\ outcomes[i].tag = "Ok"
    /\ outcomes[i].code # 0

\* the command at index i exited with a non-zero code and is no Workspace New
Fatal(i) ==
    /\ outcomes[i].tag = "Ok"
    /\ outcomes[i].code # 0
    /\ ~(cfg.caller = "terraform" /\ IsWorkspaceNew(commands[i]))

\* no command after index i has been taken from the list or spawned
NothingAfter(i) ==
    /\ idx = i
    /\ Len(outcomes) = i
    /\ \A k \in Range(spawns) : k <= i

\* C5: when the command at index i exits with a non-zero code c and is not a
\* Workspace New, the chain has returned c and no later command is invoked.
C5_ShortCircuit ==
    \A i \in DOMAIN outcomes :
        Fatal(i) => /\ cpc = "Returned"
                    /\ chain_result = Ok(outcomes[i].code)
                    /\ NothingAfter(i)

C5_Witness ==
    /\ Len(commands) = 2
    /\ Len(outcomes) = 1
    /\ Fatal(1)
    /\ chain_result = Ok(3)

\* C6: when a Workspace New exits with a non-zero code and a command follows
\* it in the list, the chain goes on: execute is called for that command.
C6_WorkspaceNewFailureContinues ==
    \A i \in DOMAIN outcomes :
        (WorkspaceNewFailed(i) /\ i < Len(commands))
            => /\ idx > i
               /\ Len(outcomes) = i
                    => /\ cpc = "Loop"
                       /\ pc # "idle"
                       /\ context = TerraformExecutor_context(commands[i + 1])

C6_Witness ==
    /\ Len(commands) = 2
    /\ Len(outcomes) = 2
    /\ WorkspaceNewFailed(1)
    /\ spawns = <<1, 2>>

\* C7: when execute returns an error for a command, a Workspace New
\* included, the chain has returned that error and no later command is
\* invoked.
C7_ErrorAbortsChain ==
    \A i \in DOMAIN outcomes :
        outcomes[i].tag = "Err"
            => /\ cpc = "Returned"
               /\ chain_result = outcomes[i]
               /\ chain_result.kind \in {"ExecuterError(ValidationError)",
                                          "ExecuterError(IoError)",
                                          "ExecuterError(ExecutionError)"}
               /\ NothingAfter(i)

C7_Witness ==
    /\ Len(commands) = 2
    /\ IsWorkspaceNew(commands[1])
    /\ outcomes = <<Err("ExecuterError(ValidationError)", "Working directory does not exist")>>
    /\ chain_result = outcomes[1]

\* the state of the chain, in the words of the specification
ChainState ==
    CASE cpc = "Pending" -> <<"Pending">>
      [] cpc = "Loop" -> <<"Running", idx - 1>>
      [] cpc = "Returned" /\ chain_result.tag = "Err" -> <<"Errored", chain_result.kind>>
      [] cpc = "Returned" /\ chain_result.tag = "Ok" /\ chain_result.code = 0 -> <<"Succeeded">>
      [] OTHER -> <<"Failed", chain_result.code>>

Terminal == ChainState[1] \in {"Succeeded", "Failed", "Errored"}

\* C8: the chain moves Pending -> Running(0) -> Running(1) -> ... one index
\* at a time and ends in Succeeded, Failed(code) or Errored(cause); these
\* are terminal; only the current index is ever launched; and Succeeded
\* means every command exited 0 or was a failed Workspace New.
C8_ChainStateMachine ==
    /\ [][ChainState' # ChainState
            => \/ /\ ChainState = <<"Pending">>
                  /\ \/ ChainState' = <<"Running", 0>>
                     \/ ChainState' = <<"Succeeded">> /\ commands = <<>>
               \/ /\ ChainState[1] = "Running"
                  /\ \/ /\ ChainState' = <<"Running", ChainState[2] + 1>>
                        /\ ChainState[2] + 1 < Len(commands)
                     \/ Terminal']_vars
    /\ [][Terminal => /\ ChainState' = ChainState
                       /\ <<idx, pc, context, last_result, spawns, outcomes>>'
                              = <<idx, pc, context, last_result, spawns, outcomes>>]_vars
    /\ [](cpc = "Loop" => /\ Len(outcomes) = idx - 1
                           /\ \A k \in Range(spawns) : k <= idx)
    /\ [](ChainState = <<"Succeeded">>
            => /\ Len(outcomes) = Len(commands)
               /\ \A i \in DOMAIN outcomes :
                      outcomes[i] = Ok(0) \/ WorkspaceNewFailed(i))

C8_Witness ==
    /\ ChainState = <<"Succeeded">>
    /\ Len(commands) = 2
    /\ WorkspaceNewFailed(1)
    /\ outcomes[2] = Ok(0)

(***************************************************************************)
(* Ordering, results and errors of Subprocess::execute.                    *)
(***************************************************************************)
\* the records of one stream in a sequence of records, in their order there
OfStream(recs, s) == SelectSeq(recs, LAMBDA r : r.origin.stream = s)

\* the places records are written to one after the other: what each logger
\* worker has printed, and each file
WritePaths == {printed(l) : l \in Loggers} \cup {file(p) : p \in WritablePaths}

RECURSIVE CompleteLines(_, _)
CompleteLines(bytes, line) ==
    IF bytes = <<>> THEN <<>>
    ELSE IF Head(bytes) = "\n" THEN <<line>> \o CompleteLines(Tail(bytes), <<>>)
    ELSE CompleteLines(Tail(bytes), Append(line, Head(bytes)))

\* C12: whatever the interleaving of the two drain tasks, also when both
\* write the same file, every terminated line of a file is one whole
\* redacted line: no line is split or merged by a write of the other drain.
C12_FileHoldsWholeLines ==
    \A p \in WritablePaths :
        \A line \in Range(CompleteLines(FileBytes(p), <<>>)) :
            \E e \in Range(emitted) : line = process(cfg.processor, e.raw)

\* the step on which execute returns
Returns == pc # "done" /\ pc' = "done"

\* C13: execute returns an error only when validation, the spawn, the wait
\* or a drain join failed or the timeout elapsed; a child that ran to
\* completion with a non-zero exit code and whose drains joined makes it
\* return Ok(code).
C13_NonZeroExitIsOk ==
    [][/\ (Returns /\ result'.tag = "Err")
            => \/ pc = "launch"
               \/ pc = "wait" /\ result'.kind = "IoError"
               \/ pc = "kill"
               \/ pc = "join_stdout" /\ drain["out"] = "panicked"
               \/ pc = "join_stderr" /\ drain["err"] = "panicked"
       /\ (/\ Returns
           /\ pc = "join_stderr"
           /\ drain["err"] # "panicked"
           /\ status \notin {None, Some(0)})
            => result' = Ok(status[1])]_vars

C13_Witness == pc = "done" /\ child = "reaped" /\ result = Ok(3)

\* C14: the integer execute returns is the exit code the child reported and
\* is 2 when the child ended without one; in that case the call still
\* returns Ok.
C14_ReturnedCode ==
    [][/\ (Returns /\ result'.tag = "Ok")
            => /\ pc = "join_stderr"
               /\ result'.code = (IF status = None THEN 2 ELSE status[1])
       /\ (Returns /\ pc = "join_stderr" /\ drain["err"] # "panicked" /\ status = None)
            => result'.tag = "Ok"]_vars

C14_Witness == pc = "done" /\ child = "reaped" /\ result = Ok(2)

\* the messages of the timeout error, one for each timeout a request carries
TimeoutMessages ==
    {TimedOut(c.timeout[1]) : c \in {d \in DirectContexts : d.timeout # None}}

\* what a caller can tell from a returned error alone
Classify(r) ==
    CASE r.kind = "IoError" /\ r.msg = "spawn failed" -> "spawn"
      [] r.kind = "IoError" /\ r.msg = "wait failed" -> "wait"
      [] r.kind = "ExecutionError"
            /\ r.msg \in {"Failed to capture stdout", "Failed to capture stderr"} -> "capture"
      [] r.kind = "ExecutionError"
            /\ r.msg \in {"Failed to process stdout", "Failed to process stderr"} -> "join"
      [] r.kind = "ExecutionError" /\ r.msg \in TimeoutMessages -> "timeout"
      [] OTHER -> "validation"

\* why the step that returns an error returns it
Cause ==
    CASE pc = "kill" -> "timeout"
      [] pc \in {"join_stdout", "join_stderr"} -> "join"
      [] pc = "wait" -> "wait"
      [] pc = "launch" /\ Rejected(context) -> "validation"
      [] OTHER -> "spawn"

C16_ReadErrorPropagated ==
    (pc = "done" /\ result.tag = "Ok") => \A s \in Streams : drain[s] # "readerr"

(***************************************************************************)
(* Properties of the chain executors and of the action binaries.           *)
(***************************************************************************)
\* C17: nothing is retried: a child is spawned only by the launch of the
\* current command and at most once for it, and every call of execute is for
\* the next command of the list, whatever the outcome of the one before.
C17_NoRetry ==
    [][/\ idx' >= idx
       /\ (pc # "launch" /\ pc' = "launch") => idx' = idx + 1
       /\ (pc = "launch" /\ pc' = "launch") => UNCHANGED <<idx, spawns>>
       /\ spawns' # spawns
            => /\ pc = "launch"
               /\ spawns' = Append(spawns, idx)
               /\ \A k \in DOMAIN spawns : spawns[k] < idx]_vars

C17_Witness ==
    /\ cpc = "Returned"
    /\ chain_result.tag = "Err"
    /\ idx = 2
    /\ spawns = <<1, 2>>

\* C18: once the action binary has exited, its exit status is the code the
\* chain returned for its first fatal step, and is 0 only when the chain
\* returned Ok(0).
C18_ExitStatusIsChainCode ==
    exit_status # None
        => /\ chain_result.tag = "Ok" => exit_status = Some(chain_result.code)
           /\ exit_status = Some(0) => chain_result = Ok(0)

(***************************************************************************)
(* Properties of the Validator and of CmdRule, under SpecValidator.        *)
(***************************************************************************)
Sorted(rs) == \A i, j \in DOMAIN rs : i < j => priority(rs[i]) <= priority(rs[j])

\* the rule fails on the request being validated
Fails(rule) == Ok(0) \notin ValidationRule_validate(rule, context)

\* C19: Validator::new leaves the supplied rules in ascending order of
\* priority; validate runs them in that order, stops at the first rule that
\* fails and returns its error, and returns Ok only when every rule passed.
C19_SortedFailFast ==
    /\ [][pc = "new" => /\ Sorted(rules')
                        /\ Len(rules') = Len(rules)
                        /\ Range(rules') = Range(rules)]_vars
    /\ [](pc \in {"validate", "done"}
            => /\ Sorted(rules)
               /\ Len(evaluated) <= Len(rules)
               /\ evaluated = SubSeq(rules, 1, Len(evaluated))
               /\ \A k \in 1..(Len(evaluated) - 1) : ~Fails(evaluated[k]))
    /\ [](pc = "done"
            => IF result.tag = "Err"
               THEN /\ evaluated # <<>>
                    /\ Fails(evaluated[Len(evaluated)])
                    /\ result \in ValidationRule_validate(evaluated[Len(evaluated)], context)
               ELSE /\ result = Ok(0)
                    /\ evaluated = rules
                    /\ \A k \in DOMAIN rules : ~Fails(rules[k]))

C19_Witness ==
    /\ pc = "done"
    /\ rules = <<"high priority", "path", "low priority">>
    /\ evaluated = <<"high priority">>
    /\ result = Err("ValidationError", "Test failure")

\* the token at index i is checked: it is the first one, or the one before
\* it is not exactly "-c"
Checked(command, i) == i = 1 \/ command[i - 1] # <<"-", "c">>

ShapeRejected(command) ==
    \/ command = <<>>
    \/ \E i \in DOMAIN command :
          /\ Checked(command, i)
          /\ \E j \in DOMAIN command[i] :
                command[i][j] \in {"&", "|", ";", "backtick", "backslash"}

\* C20: CmdRule rejects a request exactly when its token list is empty or a
\* checked token holds one of & | ; ` \; the token right after a token that
\* is exactly "-c" is not checked, every other token is.
C20_CmdRuleShape ==
    \A k \in DOMAIN evaluated :
        evaluated[k] = "cmd"
            => (ShapeRejected(context.command)
                  <=> /\ k = Len(evaluated)
                      /\ pc = "done"
                      /\ result.tag = "Err"
                      /\ result.kind = "ValidationError")

C20_Witness ==
    /\ pc = "done"
    /\ result = Ok(0)
    /\ "cmd" \in Range(evaluated)
    /\ context.command = <<T_sh, DashC, T_script>>

\* C21: EnvRule rejects a request exactly when some override has a key or a
\* value that is empty or holds whitespace only.
C21_EnvRuleBlank ==
    \A k \in DOMAIN evaluated :
        evaluated[k] = "environment"
            => ((\E e \in context.env :
                    \/ \A i \in DOMAIN e[1] : e[1][i] \in {" ", "\t"}
                    \/ \A i \in DOMAIN e[2] : e[2][i] \in {" ", "\t"})
                  <=> /\ k = Len(evaluated)
                      /\ pc = "done"
                      /\ result.tag = "Err"
                      /\ result.kind = "ValidationError")

C21_Witness ==
    /\ pc = "done"
    /\ evaluated = <<"environment">>
    /\ context.env = {<<<<"K">>, <<"v">>>>, <<<<" ">>, <<"\t">>>>}
    /\ result = Err("ValidationError", "Environment variable name cannot be empty")

(***************************************************************************)
(* Properties of the redaction pipeline, under SpecMask.                   *)
(***************************************************************************)
Front(seq) == SubSeq(seq, 1, Len(seq) - 1)

Last(seq) == seq[Len(seq)]

\* one literal or one pattern replaced by the mask
Substitute(kind, item, mask, text) ==
    IF kind = "Equal" THEN Replace(text, item, mask) ELSE ReplaceAll(text, item, mask)

\* the last literal or pattern of a rule applied to what the earlier ones made
RECURSIVE ItemsInOrder(_, _, _, _)
ItemsInOrder(kind, items, mask, text) ==
    IF items = <<>> THEN text
    ELSE Substitute(kind, Last(items), mask, ItemsInOrder(kind, Front(items), mask, text))

\* rn(...r2(r1(line))...)
RECURSIVE Composed(_, _)
Composed(pipeline, line) ==
    IF pipeline = <<>> THEN line
    ELSE LET rn == Last(pipeline)
         IN  ItemsInOrder(rn.kind, rn.items, rn.mask, Composed(Front(pipeline), line))

\* C22: the text the Output logs for a line is rn(...r2(r1(line))...) for
\* the pipeline [r1, ..., rn], each rule applying its literals or patterns
\* in their listed order; under the empty pipeline it is the line itself.
C22_FoldInListOrder ==
    \A i \in DOMAIN printed("output") :
        LET rec == printed("output")[i]
        IN  /\ rec.text = Composed(cfg.processor, rec.origin.raw)
            /\ cfg.processor = <<>> => rec.text = rec.origin.raw

C22_Witness ==
    /\ Len(cfg.processor) = 2
    /\ Len(printed("output")) = 1
    /\ LET rec == printed("output")[1]
           swapped == <<cfg.processor[2], cfg.processor[1]>>
       IN  /\ rec.text = Composed(cfg.processor, rec.origin.raw)
           /\ rec.text # Composed(swapped, rec.origin.raw)

\* the line holds no literal of the rule, or no match of a pattern of it
Untouched(rule, line) ==
    IF rule.kind = "Equal"
    THEN \A k \in DOMAIN rule.items : ~Contains(line, rule.items[k])
    ELSE \A k \in DOMAIN rule.items :
            \A i \in 0..(Len(line) - 1) : MatchLen(Drop(line, i), rule.items[k]) = 0

\* C24: a line that holds none of the literals and no match of any pattern
\* of the pipeline is logged unchanged, by a pipeline of one masker and by a
\* longer one.
C24_NoMatchUnchanged ==
    \A i \in DOMAIN printed("output") :
        LET rec == printed("output")[i]
        IN  (\A k \in DOMAIN cfg.processor : Untouched(cfg.processor[k], rec.origin.raw))
                => rec.text = rec.origin.raw

C24_Witness ==
    /\ Len(cfg.processor) = 2
    /\ cfg.processor[1].kind # cfg.processor[2].kind
    /\ Len(printed("output")) = 1
    /\ LET rec == printed("output")[1]
       IN  /\ Len(rec.origin.raw) = MaxLen
           /\ \A k \in DOMAIN cfg.processor : Untouched(cfg.processor[k], rec.origin.raw)
           /\ rec.text = rec.origin.raw

C25_StdinNeverBlocks ==
    /\ (child = "reading") ~> (child # "reading")
    /\ (pc = "wait") ~> (pc = "done")

C25_Witness == pc = "wait" /\ child = "reading" /\ context.timeout = None

(***************************************************************************)
(* Properties of the chains the builder makes, under SpecBuild.            *)
(***************************************************************************)
\* C26: the chain built from a CommandChain is Init then Plan (plan_chain) or
\* Init then Apply (apply_chain) when no workspace name is set, and Init,
\* Workspace-New(w), Workspace-Select(w), then Plan or Apply when the name w
\* is set: New comes immediately before Select with the same name, and every
\* command carries the builder's directory.
C26_ChainShape ==
    (cfg.caller = "terraform" /\ commands # <<>>) =>
        LET n == Len(commands)
        IN  /\ commands[1].kind = "Init"
            /\ commands[n].kind \in {"Plan", "Apply"}
            /\ \A i \in 1..n : commands[i].dir = chain.dir
            /\ chain.workspace = None => n = 2
            /\ chain.workspace # None =>
                   /\ n = 4
                   /\ commands[2].kind = "Workspace" /\ commands[2].op = "New"
                   /\ commands[3].kind = "Workspace" /\ commands[3].op = "Select"
                   /\ commands[2].name = chain.workspace[1]
                   /\ commands[3].name = chain.workspace[1]

C26_Witness ==
    /\ cfg.caller = "terraform"
    /\ chain.workspace # None
    /\ Len(commands) = 4
    /\ commands[4].kind = "Apply"
    /\ idx = 4

\* args is one `flag key=value` token for each entry of the map, in strictly
\* ascending order of the keys
AscendingByKey(flag, map, args) ==
    /\ Len(args) = Len(map)
    /\ \E ks \in [1..Len(map) -> {map[i][1] : i \in DOMAIN map}] :
          /\ \A i, j \in 1..Len(map) : i < j => Less(ks[i], ks[j])
          /\ \A i \in 1..Len(map) :
                \E e \in DOMAIN map :
                   /\ map[e][1] = ks[i]
                   /\ args[i] = flag \o ks[i] \o <<"=">> \o map[e][2]

C28_InitExample ==
    (/\ cfg.caller = "terraform"
     /\ idx \in 1..Len(commands)
     /\ commands[idx].kind = "Init"
     /\ commands[idx].backend_config # None
     /\ {commands[idx].backend_config[1][i] : i \in DOMAIN commands[idx].backend_config[1]}
            = {<<<<"k", "e", "y", "1">>, <<"v", "a", "l", "u", "e", "1">>>>,
               <<<<"k", "e", "y", "2">>, <<"v", "a", "l", "u", "e", "2">>>>})
    => TerraformCommand_to_args(commands[idx])
           = <<<<"i", "n", "i", "t">>,
               <<"-", "b", "a", "c", "k", "e", "n", "d", "-", "c", "o", "n", "f", "i", "g", "=",
                 "k", "e", "y", "1", "=", "v", "a", "l", "u", "e", "1">>,
               <<"-", "b", "a", "c", "k", "e", "n", "d", "-", "c", "o", "n", "f", "i", "g", "=",
                 "k", "e", "y", "2", "=", "v", "a", "l", "u", "e", "2">>>>

\* C29: the token list of a Sync command is the program, `s3`, `sync`, the
\* source, the destination, one `--exclude=p` per exclude pattern, one
\* `--include=p` per include pattern, then `--delete`, `--dryrun` and `--force`
\* for the flags that are set, in that order; `s3` is there exactly once.
C29_SyncTokens ==
    (cfg.caller = "aws" /\ idx \in 1..Len(commands)) =>
        LET command == commands[idx]
            excludes == IF command.exclude = None THEN <<>> ELSE command.exclude[1]
            includes == IF command.include = None THEN <<>> ELSE command.include[1]
        IN  /\ context.command
                 = <<<<"a", "w", "s">>, <<"s", "3">>, <<"s", "y", "n", "c">>,
                     command.source, command.destination>>
                   \o [i \in DOMAIN excludes |->
                          <<"-", "-", "e", "x", "c", "l", "u", "d", "e", "=">> \o excludes[i]]
                   \o [i \in DOMAIN includes |->
                          <<"-", "-", "i", "n", "c", "l", "u", "d", "e", "=">> \o includes[i]]
                   \o (IF command.delete
                       THEN <<<<"-", "-", "d", "e", "l", "e", "t", "e">>>> ELSE <<>>)
                   \o (IF command.dry_run
                       THEN <<<<"-", "-", "d", "r", "y", "r", "u", "n">>>> ELSE <<>>)
                   \o (IF command.force
                       THEN <<<<"-", "-", "f", "o", "r", "c", "e">>>> ELSE <<>>)
            /\ Cardinality({i \in DOMAIN context.command :
                               context.command[i] = <<"s", "3">>}) = 1

(***************************************************************************)
(* Properties of the variables of an action, under SpecEnv.                *)
(***************************************************************************)
\* a key in lower case and without the optional prefix of the action's
\* variables: two keys are equal up to letter case and the prefix when they
\* are the same Plain key
Plain(key) ==
    LET lowered == to_lowercase(key)
        prefix == IF cfg.caller = "terraform"
                  THEN <<"t", "f", "_", "v", "a", "r", "_">>
                  ELSE <<"a", "w", "s", "_", "v", "a", "r", "_">>
    IN  IF StartsWith(lowered, prefix) THEN Drop(lowered, Len(prefix)) ELSE lowered

\* the most recent of the first n calls whose key equals `key` up to letter
\* case and the prefix; 0 when there is none
LastCall(key, n) ==
    LET S == {i \in 1..n : Plain(calls[i].key) = Plain(key)}
    IN  IF S = {} THEN 0 ELSE CHOOSE i \in S : \A j \in S : j <= i

\* what that call left under the key: the value of an add, nothing after a remove
Held(key, n) ==
    IF calls[LastCall(key, n)].op = "add"
    THEN Some(calls[LastCall(key, n)].value)
    ELSE None

\* C30: after any sequence of add and remove calls on a TerraformEnv or an
\* AwsEnv, get(k) and contains_key(k) reflect the most recent add whose key
\* equals k up to letter case and the optional TF_VAR_ / AWS_VAR_ prefix,
\* unless a later remove of such a key took it away; remove returns the value
\* that was stored, and afterwards get returns none for every such key.
C30_EnvKeysNormalised ==
    /\ \A k \in EnvNames :
          LastCall(k, Len(calls)) > 0 =>
              /\ get(k) = Held(k, Len(calls))
              /\ contains_key(k) <=> Held(k, Len(calls)) # None
    /\ \A i \in DOMAIN calls :
          (calls[i].op = "remove" /\ LastCall(calls[i].key, i - 1) > 0) =>
              calls[i].ret = Held(calls[i].key, i - 1)

C30_Witness ==
    /\ cfg.caller = "terraform"
    /\ Len(calls) = 2
    /\ calls[1] = [op |-> "add", key |-> <<"T", "F", "_", "V", "A", "R", "_", "a">>,
                   value |-> "v2", ret |-> None]
    /\ calls[2] = [op |-> "remove", key |-> <<"A">>, value |-> "-", ret |-> Some("v2")]
    /\ get(<<"t", "f", "_", "v", "a", "r", "_", "A">>) = None
    /\ ~contains_key(<<"a">>)

(***************************************************************************)
(* Further properties of execute_chain, under SpecChain and SpecBuild.     *)
(***************************************************************************)
\* C31: TerraformExecutor::execute_chain returns Ok(c) with c # 0 only when
\* c is the exit code of the first command other than a Workspace New that
\* exited non-zero; the non-zero code of a Workspace New is never what it
\* returns; and it returns Ok(0) whenever every command other than a
\* Workspace New exited 0, the empty chain and a chain that ends with a
\* failing Workspace New included.
C31_ReturnedCode ==
    (cfg.caller = "terraform" /\ cpc = "Returned") =>
        LET fatal == {i \in DOMAIN outcomes : Fatal(i)}
        IN  /\ (chain_result.tag = "Ok" /\ chain_result.code # 0) =>
                   /\ fatal # {}
                   /\ \A i \in fatal :
                         (\A j \in fatal : i <= j) => chain_result.code = outcomes[i].code
            /\ (/\ Len(outcomes) = Len(commands)
                /\ \A i \in DOMAIN outcomes :
                      /\ outcomes[i].tag = "Ok"
                      /\ IsWorkspaceNew(commands[i]) \/ outcomes[i].code = 0)
                   => chain_result = Ok(0)

C31_Witness ==
    /\ cfg.caller = "terraform"
    /\ cpc = "Returned"
    /\ Len(commands) = 2
    /\ ~IsWorkspaceNew(commands[1])
    /\ IsWorkspaceNew(commands[2])
    /\ outcomes = <<Ok(0), Ok(3)>>
    /\ chain_result = Ok(0)

\* C32: validation is applied to each command when it is launched, not to
\* the chain as a whole: when the command at index k fails validation, the
\* chain returns that validation error, the commands before k have been
\* executed by then, and neither k nor any command after it is launched.
C32_ValidatedAtLaunch ==
    \A k \in DOMAIN outcomes :
        (outcomes[k].tag = "Err" /\ outcomes[k].kind = "ExecuterError(ValidationError)") =>
            /\ cpc = "Returned"
            /\ chain_result = outcomes[k]
            /\ outcomes[k] \in {ExecuterError_from(r) :
                   r \in Validator_validate(Validator_default,
                                            IF cfg.caller = "terraform"
                                            THEN TerraformExecutor_context(commands[k])
                                            ELSE AwsExecutor_context(commands[k]))}
            /\ spawns = [i \in 1..(k - 1) |-> i]
            /\ \A i \in 1..(k - 1) : outcomes[i].tag = "Ok"
            /\ idx = k
            /\ Len(outcomes) = k

C32_Witness ==
    /\ cfg.caller = "terraform"
    /\ Len(commands) = 4
    /\ AnyForbidden(commands[2].name)
    /\ Len(outcomes) = 2
    /\ outcomes[1] = Ok(0)
    /\ outcomes[2] = Err("ExecuterError(ValidationError)",
                       "Invalid command argument: contains forbidden characters")
    /\ spawns = <<1>>
    /\ cpc = "Returned"

\* a command is launched only when no drain task of an earlier command is
\* still running and no child of the chain is alive
LaunchedAfterJoin ==
    pc = "launch" => /\ \A s \in Streams : drain[s] \notin {"running", "newline"}
                     /\ child \in {NoChild, "reaped"}

\* a process is spawned only when the previous child has been reaped
OneChildAtATime == [][spawns' # spawns => child \in {NoChild, "reaped"}]_vars

\* a write that a command causes on a sink never comes after a write caused
\* by a later command: writes made inside Output::write carry the index of
\* the running command, and a record printed by a logger's worker is not
\* older than any record a sink already holds
SinkWritesInCommandOrder ==
    [][/\ emitted' # emitted => \A r \in SinkRecords : r.origin.cmd <= idx
       /\ \A l \in Loggers :
             nprinted'[l] > nprinted[l] =>
                 \A r \in SinkRecords :
                     r.origin.cmd <= Submitted(l)[nprinted'[l]].origin.cmd]_vars

\* C33: in a chain the command at index i+1 is not launched until execute
\* for command i has returned with both of its drain tasks joined; hence
\* every sink write caused by command i precedes every sink write caused by
\* command i+1, and at most one child process of the chain exists at a time.
C33_CommandsDoNotOverlap ==
    /\ []LaunchedAfterJoin
    /\ OneChildAtATime
    /\ SinkWritesInCommandOrder

(***************************************************************************)
(* Properties of the two drain tasks, under SpecPipes.                     *)
(***************************************************************************)
\* C34: both pipes are drained while execute waits for the child to exit:
\* for a child that writes any finite sequence of lines to stdout and stderr
\* in any order, more than a pipe holds on one stream before the other is
\* touched included, and then exits, with no timeout, execute eventually
\* returns, and the child is never blocked for ever on a full pipe.
C34_DrainedWhileWaiting ==
    /\ (pc = "launch" /\ context.timeout = None) ~> (pc = "done")
    /\ \A s \in Streams :
          (context.timeout = None /\ child = "running" /\ Len(pipe[s]) = PipeCap)
              ~> (child # "running" \/ Len(pipe[s]) < PipeCap)

C34_Witness ==
    /\ context.timeout = None
    /\ pc = "wait"
    /\ child = "running"
    /\ Len(pipe["out"]) = PipeCap
    /\ written = [s \in Streams |-> IF s = "out" THEN PipeCap ELSE 0]
    /\ Len(Script) > PipeCap
    /\ Script[PipeCap + 1] = <<"o">>
    /\ emitted = <<>>

\* what the sink of stream s holds when the write calls made for the lines
\* of s are the only ones, each logger having printed all it was handed
ContentAlone(s) ==
    LET own == SelectSeq(emitted, LAMBDA e : e.stream = s)
        ByOutput(e) == SubmittedBy("output", e)
        ByWriter(e) == SubmittedBy("writer", e)
        Eprinted(e) == EprintedBy(e)
        Lines(e) == <<[tag |-> "line", text |-> process(cfg.processor, e.raw), origin |-> e]>>
    IN  CASE TargetOf(s).kind = "Stdout" -> FlatMap(ByOutput, own) \o FlatMap(ByWriter, own)
          [] TargetOf(s).kind = "Stderr" -> FlatMap(Eprinted, own)
          [] OTHER -> FlatMap(Lines, own)

\* C35: when the stdout and stderr sinks are distinct, the content of each
\* sink once execute has returned Ok and the loggers have printed all their
\* records is the same for every interleaving of the two drain tasks: it is
\* what the lines the child wrote to that stream, and the rule list, give.
C35_SinkDependsOnItsStream ==
    (/\ pc = "done"
     /\ result.tag = "Ok"
     /\ Flushed
     /\ cfg.output_target # cfg.error_target)
        => \A s \in Streams : Sink(TargetOf(s)) = ContentAlone(s)

\* the child has exited while execute waits for it, or later in that call
ExitedInTime ==
    /\ child \in {"exited", "reaped"}
    /\ pc \in {"wait", "join_stdout", "join_stderr"}

\* what execute returns once the child has exited, on the path without a
\* timeout: the error of a failed wait or join, else the child's code
Returned ==
    CASE pc = "wait" -> Err("IoError", "wait failed")
      [] pc = "join_stdout" -> Err("ExecutionError", "Failed to process stdout")
      [] OTHER -> IF drain["err"] = "panicked"
                  THEN Err("ExecutionError", "Failed to process stderr")
                  ELSE Ok(IF status = None THEN FallbackCode ELSE status[1])

\* the lines a finished script has written to stream s
ScriptLines(s) ==
    LET tok == IF s = "out" THEN <<"o">> ELSE <<"e">>
        n == Cardinality({i \in DOMAIN Script : Script[i] = tok})
    IN  [k \in 1..n |-> Line(s, k)]

\* the lines handed to Output::write for stream s, in order
Handed(s) ==
    LET own == SelectSeq(emitted, LAMBDA e : e.stream = s)
    IN  [k \in DOMAIN own |-> own[k].raw]

\* C36: when the child exits before a set timeout expires, execute takes
\* the steps and returns the result of the same request without a timeout:
\* the kill branch is not entered, the result is the one the path without a
\* timeout gives for the way the child ended and the drains finished, and at
\* an Ok return every line of the child has been handed to its sink.
C36_TimeoutUnusedAfterExit ==
    /\ [][ExitedInTime => /\ pc' # "kill"
                          /\ (pc' = "done" => result' = Returned)]_vars
    /\ [](pc = "done" /\ result.tag = "Ok"
             => \A s \in Streams : Handed(s) = ScriptLines(s))

C36_Witness ==
    /\ context.timeout # None
    /\ pc = "done"
    /\ result = Ok(3)
    /\ child = "reaped"
    /\ written = [s \in Streams |-> IF s = "out" THEN 2 ELSE 1]
    /\ Len(emitted) = 3

\* C37: a drain task that was aborted by a failure of its sink (a file that
\* cannot be opened) makes execute, once the child has been waited for,
\* return the execution error that names the stream of that task, the
\* stdout one when both tasks were aborted; Ok is never returned then.
C37_DrainFailureReported ==
    /\ [](pc = "done" /\ result.tag = "Ok" => \A s \in Streams : drain[s] # "panicked")
    /\ [][(/\ pc \in {"join_stdout", "join_stderr"}
           /\ pc' = "done"
           /\ \E s \in Streams : drain[s] = "panicked")
             => result' = Err("ExecutionError",
                              IF drain["out"] = "panicked" THEN "Failed to process stdout"
                              ELSE "Failed to process stderr")]_vars

C37_Witness ==
    /\ context.timeout = None
    /\ pc = "done"
    /\ child = "reaped"
    /\ \A s \in Streams : drain[s] = "panicked"
    /\ result = Err("ExecutionError", "Failed to process stdout")

(***************************************************************************)
(* Properties of the rule list built from the environment, under           *)
(* SpecValues.                                                             *)
(***************************************************************************)
\* C38: an exact-substring rule alters a line only at occurrences of a
\* non-empty literal: with a literal list that holds the empty string (the
\* value of an environment variable that is set to nothing), a line that
\* contains none of the non-empty literals, and no match of a pattern, is
\* logged unchanged.
C38_EmptyLiteralInert ==
    \A i \in DOMAIN printed("output") :
        LET rec == printed("output")[i]
            NoOccurrence(rule) ==
                IF rule.kind = "Equal"
                THEN \A k \in DOMAIN rule.items :
                        rule.items[k] # <<>> => ~Contains(rec.origin.raw, rule.items[k])
                ELSE Untouched(rule, rec.origin.raw)
        IN  (\A k \in DOMAIN cfg.processor : NoOccurrence(cfg.processor[k]))
                => rec.text = rec.origin.raw

=============================================================================
